---- MODULE Spec2Model ----
(***************************************************************************)
(* Display-name resolution and cache synchronisation of the                *)
(* property-over-file-name plugin.                                         *)
(*                                                                         *)
(*   SpecResolve : the record builders and the surfaces on one document    *)
(*   Spec        : the frontmatter cache under vault events                *)
(*   SpecLink    : the file display cache under vault events               *)
(*   SpecReads   : one MDX document read by the graph view and by builds   *)
(*   SpecSearch  : the tiered search of both suggesters                    *)
(*   SpecSuggest : the suggestion lists of both suggesters                 *)
(*   SpecHooks   : the command, suggester and prototype hooks into the host*)
(***************************************************************************)
EXTENDS Integers, Sequences, FiniteSets, TLC

(***************************************************************************)
(* Bounds of the model.                                                    *)
(***************************************************************************)
MaxStrLen == 2
MaxNum == 1
MaxArrLen == 2

(***************************************************************************)
(* JavaScript strings, as sequences of one-character strings.              *)
(***************************************************************************)
Chars == {" ", "a"}

RECURSIVE StringsUpTo(_)
StringsUpTo(n) ==
  IF n = 0 THEN {<<>>}
  ELSE LET shorter == StringsUpTo(n - 1)
       IN  shorter \cup {Append(s, c) : s \in {t \in shorter : Len(t) = n - 1}, c \in Chars}

Strings == StringsUpTo(MaxStrLen)

IsSpace(c) == c = " "

RECURSIVE TrimLeft(_)
TrimLeft(s) == IF s # <<>> /\ IsSpace(Head(s)) THEN TrimLeft(Tail(s)) ELSE s

RECURSIVE TrimRight(_)
TrimRight(s) ==
  IF s # <<>> /\ IsSpace(s[Len(s)]) THEN TrimRight(SubSeq(s, 1, Len(s) - 1)) ELSE s

\* String.prototype.trim
Trim(s) == TrimRight(TrimLeft(s))

DigitChar(d) == <<"0", "1", "2", "3", "4", "5", "6", "7", "8", "9">>[d + 1]

RECURSIVE Digits(_)
Digits(n) == IF n < 10 THEN <<DigitChar(n)>> ELSE Append(Digits(n \div 10), DigitChar(n % 10))

(***************************************************************************)
(* Frontmatter values as the YAML parser hands them over.                  *)
(***************************************************************************)
UndefV == [k |-> "undefined", v |-> 0]
NullV == [k |-> "null", v |-> 0]
ObjV == [k |-> "object", v |-> 0]
StrV(s) == [k |-> "string", v |-> s]
NumV(n) == [k |-> "number", v |-> n]
BoolV(b) == [k |-> "boolean", v |-> b]
ArrV(e) == [k |-> "array", v |-> e]

ScalarValues ==
  {StrV(s) : s \in Strings} \cup {NumV(n) : n \in 0..MaxNum} \cup {BoolV(b) : b \in BOOLEAN}

ElemValues == {StrV(<<>>), StrV(<<" ">>), StrV(<<"a">>), NumV(1), NullV}

RECURSIVE SeqsUpTo(_, _)
SeqsUpTo(S, n) ==
  IF n = 0 THEN {<<>>}
  ELSE LET shorter == SeqsUpTo(S, n - 1)
       IN  shorter \cup {Append(s, x) : s \in {t \in shorter : Len(t) = n - 1}, x \in S}

ArrayValues == {ArrV(e) : e \in SeqsUpTo(ElemValues, MaxArrLen)}

Values == {UndefV, NullV, ObjV} \cup ScalarValues \cup ArrayValues

RECURSIVE JoinComma(_)
\* String(x) of the global String function; an array joins its elements
\* with ",", null and undefined elements giving the empty string.
ToStr(x) ==
  CASE x.k = "string" -> x.v
    [] x.k = "number" -> Digits(x.v)
    [] x.k = "boolean" -> IF x.v THEN <<"t", "r", "u", "e">> ELSE <<"f", "a", "l", "s", "e">>
    [] x.k = "null" -> <<"n", "u", "l", "l">>
    [] x.k = "undefined" -> <<"u", "n", "d", "e", "f", "i", "n", "e", "d">>
    [] x.k = "object" ->
         <<"[", "o", "b", "j", "e", "c", "t", " ", "O", "b", "j", "e", "c", "t", "]">>
    [] OTHER -> JoinComma(x.v)

ElemStr(x) == IF x.k \in {"null", "undefined"} THEN <<>> ELSE ToStr(x)

JoinComma(e) ==
  IF e = <<>> THEN <<>>
  ELSE IF Len(e) = 1 THEN ElemStr(e[1])
  ELSE ElemStr(e[1]) \o <<",">> \o JoinComma(Tail(e))

\* JavaScript truthiness, of `if (frontmatter?.aliases)`
Truthy(x) ==
  CASE x.k = "string" -> x.v # <<>>
    [] x.k = "number" -> x.v # 0
    [] x.k = "boolean" -> x.v
    [] x.k \in {"null", "undefined"} -> FALSE
    [] OTHER -> TRUE

\* A document's frontmatter: NoFm (none, or unparsable), or the mapping,
\* of which the property key's value and the aliases are kept.
NoFm == [prop |-> UndefV, aliases |-> UndefV, none |-> TRUE]
Fm(p, a) == [prop |-> p, aliases |-> a, none |-> FALSE]

(***************************************************************************)
(* The record builders.  A file is [id, path, basename, ext, mtime]; the   *)
(* frontmatter handed to a builder is what its own lookup returned.        *)
(***************************************************************************)
NoRec == [file |-> 0, displayName |-> <<>>, aliases |-> <<>>, lastModified |-> 0,
          isCustomDisplay |-> FALSE, absent |-> TRUE]

Rec(file, displayName, aliases, isCustomDisplay) ==
  [file |-> file.id, displayName |-> displayName, aliases |-> aliases,
   lastModified |-> file.mtime, isCustomDisplay |-> isCustomDisplay, absent |-> FALSE]

RECURSIVE MapTrimDropEmpty(_)
\* aliases.map(alias => String(alias).trim()).filter(alias => alias !== '')
MapTrimDropEmpty(e) ==
  IF e = <<>> THEN <<>>
  ELSE LET t == Trim(ToStr(Head(e)))
       IN  (IF t = <<>> THEN <<>> ELSE <<t>>) \o MapTrimDropEmpty(Tail(e))

\* `if (frontmatter?.aliases) { ... }` of the three builders
AliasesOf(frontmatter) ==
  IF ~frontmatter.none /\ Truthy(frontmatter.aliases)
  THEN MapTrimDropEmpty(IF frontmatter.aliases.k = "array"
                        THEN frontmatter.aliases.v ELSE <<frontmatter.aliases>>)
  ELSE <<>>

\* utils/search buildFileCache (async revision): the body of one file
buildFileCacheEntry(file, frontmatter) ==
  LET raw == frontmatter.prop
      propertyValue ==
        IF raw.k = "string" THEN Trim(raw.v)
        ELSE IF raw.k \in {"number", "boolean"} THEN Trim(ToStr(raw))
        ELSE <<>>
      custom == /\ ~frontmatter.none
                /\ raw.k \notin {"undefined", "null"}
                /\ propertyValue # <<>>
  IN  Rec(file, IF custom THEN propertyValue ELSE file.basename, AliasesOf(frontmatter), custom)

\* LinkTitleSuggest.updateFileCache: the record it stores under file.path
updateFileCacheEntry(file, frontmatter) ==
  LET raw == frontmatter.prop
      propertyValue == Trim(ToStr(raw))
      custom == /\ ~frontmatter.none
                /\ raw.k \notin {"undefined", "null"}
                /\ propertyValue # <<>>
  IN  Rec(file, IF custom THEN propertyValue ELSE file.basename, AliasesOf(frontmatter), custom)

\* utils/search buildFileCache (synchronous revision): the body of one file
buildFileCacheEntrySync(file, frontmatter) ==
  LET raw == frontmatter.prop
      propertyValue == Trim(ToStr(raw))
      custom == /\ ~frontmatter.none
                /\ raw.k \notin {"undefined", "null"}
                /\ propertyValue # <<>>
  IN  Rec(file, IF custom THEN propertyValue ELSE file.basename, AliasesOf(frontmatter), custom)

\* utils/frontmatter isFileTypeSupported
isFileTypeSupported(extension, enableMdxSupport) ==
  IF extension = "md" THEN TRUE
  ELSE IF extension = "mdx" THEN enableMdxSupport
  ELSE FALSE

\* utils/frontmatter getFrontmatter: what it resolves to, given the host's
\* metadata index entry of the file and the frontmatter of the content read
getFrontmatterResult(extension, enableMdxSupport, indexed, content) ==
  IF extension = "md" THEN indexed
  ELSE IF extension = "mdx" /\ enableMdxSupport THEN content
  ELSE NoFm

(***************************************************************************)
(* State.                                                                  *)
(***************************************************************************)
VARIABLES
  rDoc,              \* SpecResolve: the document handed to the builders
  rOut,              \* SpecResolve: what each builder produced for it
  sIn,               \* SpecSearch: the candidate, the settings and the matcher
  sOut,              \* SpecSearch: what each performSearch recorded for it
  gIn,               \* SpecSuggest: the query, the settings, the files and links
  gOut,              \* SpecSuggest: what each getSuggestions returned
  reasons,           \* SpecReasons: the matchReasons maps and the last queries
  phase,             \* SpecHooks: "constructed", "ready" (updates run) or "unloaded"
  settings,          \* SpecHooks: the enable* settings of the plugin
  commands,          \* SpecHooks: the host registry entry commands['switcher:open']
  quickSwitcher,     \* SpecHooks: the fields of QuickSwitcherService
  suggests,          \* SpecHooks: workspace.editorSuggest.suggests
  linkSuggest,       \* SpecHooks: this.suggest of the plugin, 0 when undefined
  graph,             \* SpecHooks: node prototypes and the fields of GraphViewService
  hostBefore,        \* SpecHooks: the registry entry and suggesters before onload
  surfPhase,         \* SpecSurfaces: "constructed", "loaded" or "unloaded"
  frame,             \* SpecSurfaces: workspace.updateTitle and WindowFrameService
  explorer,          \* SpecSurfaces: the explorer items and ExplorerService
  render,            \* SpecRender: a tab, the window title and their renders
  files,             \* the vault: each TFile's path, liveness, frontmatter, mtime
  enableMdxSupport,  \* settings.enableMdxSupport
  suggest,           \* whether CacheService.suggest is set (enableForLinking)
  fileCache,         \* LinkTitleSuggest.fileCache: path -> record
  builds,            \* buildFileCache calls in flight
  fmCache,           \* FrontmatterCache.cache: path -> frontmatter or null
  fmPending,         \* FrontmatterCache.pending: path -> the promise of a read
  reads,             \* FrontmatterCache.get reads in flight
  config,            \* SpecConfig: the persisted data and settings.propertyKey
  backlinks,         \* SpecBacklinks: backlink elements, the observer and its timers
  drop,              \* SpecDrop: the editor, the drop in progress and DragDropService
  bookmark           \* SpecBookmark: the modal, BookmarkService and its polls

resolveVars == <<rDoc, rOut>>
searchVars == <<sIn, sOut>>
suggestVars == <<gIn, gOut, reasons>>
hookVars == <<phase, settings, commands, quickSwitcher, suggests, linkSuggest, graph, hostBefore>>
surfVars == <<surfPhase, frame, explorer, render>>
lateVars == <<config, backlinks, drop, bookmark>>
inputVars == <<resolveVars, searchVars, suggestVars, hookVars, surfVars, lateVars>>
worldVars == <<files, enableMdxSupport, suggest>>
linkVars == <<fileCache, builds>>
fmVars == <<fmCache, fmPending, reads>>
vars == <<rDoc, rOut, sIn, sOut, gIn, gOut, reasons, hookVars, surfVars, lateVars, files, enableMdxSupport, suggest, fileCache, builds, fmCache,
          fmPending, reads>>

(***************************************************************************)
(* The vault and the host's events.                                        *)
(***************************************************************************)
MaxMtime == 1
MaxReads == 2
MaxBuilds == 1

\* Two TFile objects: a markdown file and an MDX file.
Files == {1, 2}
Ext(f) == IF f = 1 THEN "md" ELSE "mdx"

Paths == {"a.md", "b.md", "c.mdx", "d.mdx"}
PathsOf(f) == IF f = 1 THEN {"a.md", "b.md"} ELSE {"c.mdx", "d.mdx"}

\* TFile.basename
BaseOf(path) ==
  CASE path = "a.md" -> <<"a">>
    [] path = "b.md" -> <<"b">>
    [] path = "c.mdx" -> <<"c">>
    [] OTHER -> <<"d">>

\* Frontmatters documents take in the event specifications
FmVals == {NoFm, Fm(StrV(<<"a">>), UndefV), Fm(StrV(<<"a", "a">>), UndefV)}

\* The TFile object f as the plugin sees it in vault fs.  For a .md file
\* fm is the host's metadata index entry (the content is never read), for
\* a .mdx file it is the frontmatter of the content.
TFile(fs, f) ==
  [id |-> f, path |-> fs[f].path, basename |-> BaseOf(fs[f].path), ext |-> Ext(f),
   mtime |-> fs[f].mtime]

\* metadataCache.getFileCache(file)?.frontmatter: the host indexes .md
\* files only, and drops the entry of a deleted file
Indexed(fs, f) == IF Ext(f) = "md" /\ fs[f].alive THEN fs[f].fm ELSE NoFm

\* The guard shared by the vault and metadata handlers of onload
Handled(f) == Ext(f) = "md" \/ (Ext(f) = "mdx" /\ enableMdxSupport)

FirstPath(f) == IF f = 1 THEN "a.md" ELSE "c.mdx"

\* A vault holding the files of `live` when the plugin has loaded, with any
\* frontmatter; dirty: modified and not yet re-indexed by the host; hist
\* (history): every frontmatter the document has had
InitWorld(live) ==
  \E fms \in [Files -> FmVals] :
    files = [f \in Files |->
               [path |-> FirstPath(f), alive |-> f \in live,
                fm |-> IF f \in live THEN fms[f] ELSE NoFm, mtime |-> 0, dirty |-> FALSE,
                hist |-> {IF f \in live THEN fms[f] ELSE NoFm}]]

\* A vault no specification acts on
WorldIdle ==
  /\ files = [f \in Files |->
               [path |-> FirstPath(f), alive |-> FALSE, fm |-> NoFm, mtime |-> 0,
                dirty |-> FALSE, hist |-> {NoFm}]]
  /\ enableMdxSupport = FALSE

\* No link suggester: CacheService.suggest is undefined
LinkIdle ==
  /\ suggest = FALSE
  /\ fileCache = [p \in Paths |-> NoRec]
  /\ builds = {}

Unknown == [known |-> FALSE, val |-> NoFm]
Known(v) == [known |-> TRUE, val |-> v]

\* The frontmatter cache as constructed
FmIdle ==
  /\ fmCache = [p \in Paths |-> Unknown]
  /\ fmPending = [p \in Paths |-> 0]
  /\ reads = {}

NoDoc == [ext |-> "txt", content |-> NoFm, mtime |-> 0, enableMdxSupport |-> FALSE]
NotRun == [ran |-> FALSE, cache |-> NoRec, has |-> FALSE]
Ran(has, rec) == [ran |-> TRUE, cache |-> rec, has |-> has]

\* The display name the graph view derives from a frontmatter
\* (getDisplayText), original being the node's own text
getDisplayText(frontmatter, original) ==
  IF /\ ~frontmatter.none
     /\ frontmatter.prop \notin {UndefV, NullV}
     /\ Trim(ToStr(frontmatter.prop)) # <<>>
  THEN Trim(ToStr(frontmatter.prop))
  ELSE original

\* The text each surface shows for a file, from the frontmatter its own
\* lookup returns; a surface that returns null leaves the host's text, the
\* file name
\* WindowFrameService.getActiveFileTitle
getActiveFileTitle(frontmatter, basename) ==
  IF ~frontmatter.none /\ Truthy(frontmatter.prop) THEN ToStr(frontmatter.prop)
  ELSE basename

\* ExplorerService.resolveTitle
resolveTitle(supported, frontmatter, basename) ==
  IF supported /\ ~frontmatter.none /\ Truthy(frontmatter.prop)
  THEN ToStr(frontmatter.prop)
  ELSE basename

\* TabService: (propertyValue && String(propertyValue).trim()) || file.basename
tabTitleText(frontmatter, basename) ==
  IF /\ ~frontmatter.none /\ Truthy(frontmatter.prop)
     /\ Trim(ToStr(frontmatter.prop)) # <<>>
  THEN Trim(ToStr(frontmatter.prop))
  ELSE basename

\* DragDropService.getDisplayName
dragDropDisplayName(frontmatter, basename) ==
  IF /\ ~frontmatter.none
     /\ frontmatter.prop \notin {UndefV, NullV}
     /\ Trim(ToStr(frontmatter.prop)) # <<>>
  THEN Trim(ToStr(frontmatter.prop))
  ELSE basename

\* BookmarkService: the value written to the title input
bookmarkTitle(frontmatter, basename) ==
  LET raw == frontmatter.prop
      displayValue == IF raw.k \in {"string", "number", "boolean"} THEN ToStr(raw)
                      ELSE <<>>
  IN  IF ~frontmatter.none /\ raw \notin {UndefV, NullV} /\ Trim(displayValue) # <<>>
      THEN displayValue
      ELSE basename

NotShown ==
  [ran |-> FALSE, frame |-> <<>>, explorer |-> <<>>, tab |-> <<>>, graph |-> <<>>,
   dragDrop |-> <<>>, bookmark |-> <<>>]
ResolveOutIdle ==
  [build |-> NotRun, buildSync |-> NotRun, update |-> NotRun, surfaces |-> NotShown]

ResolveIdle ==
  /\ rDoc = NoDoc
  /\ rOut = ResolveOutIdle

\* A matcher result: null, a result with no matches, or a match with a score
NullMatch == [kind |-> "null", score |-> 0]
NoSearch ==
  [basename |-> <<>>, displayName |-> <<>>, aliases |-> <<>>, isCustomDisplay |-> FALSE,
   includeFilenameInSearch |-> FALSE, includeAliasesInSearch |-> FALSE,
   search |-> [n \in {} |-> NullMatch]]
NotSearched ==
  [ran |-> FALSE, added |-> FALSE, matchType |-> "none", matchedInTitle |-> FALSE,
   matchedInFilename |-> FALSE, matchedInAlias |-> FALSE, score |-> 0]

SearchIdle ==
  /\ sIn = NoSearch
  /\ sOut = [link |-> NotSearched, quick |-> NotSearched]

\* The host and the plugin's hooks into it, untouched
Absent == [ref |-> "absent", id |-> "", name |-> "", callback |-> ""]
NoGraph ==
  [revision |-> "sync", protoOf |-> <<>>, nodes |-> <<>>,
   protos |-> <<>>, modifiedPrototypes |-> <<>>, pending |-> {}, restored |-> 0,
   tick |-> FALSE, internalPlugins |-> FALSE, threw |-> FALSE]

HooksIdle ==
  /\ phase = "unloaded"
  /\ settings = [enableForQuickSwitcher |-> FALSE, enableForLinking |-> FALSE,
                 enableForGraphView |-> FALSE]
  /\ commands = Absent
  /\ quickSwitcher = [originalSwitcherCommand |-> Absent, isCommandOverridden |-> FALSE]
  /\ suggests = <<>>
  /\ linkSuggest = 0
  /\ graph = NoGraph
  /\ hostBefore = [commands |-> Absent, suggests |-> <<>>]

\* No query typed: getSuggestions has not been called
NotSuggested == [ran |-> FALSE, items |-> <<>>]
\* A function reference of the host: which function it is and how many times
\* Function.prototype.bind has wrapped it (a bound copy is a new reference)
FnRef(fn, binds) == [fn |-> fn, binds |-> binds]
NullFn == FnRef("null", 0)
UndefinedFn == FnRef("undefined", 0)

\* No window frame and no explorer: the surfaces are not part of the run
NoFrame ==
  [enableForWindowFrame |-> FALSE, updateTitle |-> UndefinedFn,
   originalUpdateTitle |-> NullFn, enabled |-> FALSE, handlers |-> 0,
   first |-> UndefinedFn, title |-> "", titled |-> FALSE]

NoExplorer ==
  [enableForExplorer |-> FALSE, items |-> <<>>, modified |-> {}, timers |-> 0,
   queued |-> FALSE, handlers |-> 0, refreshed |-> FALSE, restoredAll |-> FALSE]

\* No tab and no window title
NoRender == [shown |-> "", version |-> <<>>, tab |-> <<>>, window |-> <<>>, reads |-> {}]

SurfIdle ==
  /\ surfPhase = "unloaded"
  /\ frame = NoFrame
  /\ explorer = NoExplorer
  /\ render = NoRender

\* No data loaded: the settings object does not exist yet
NoConfig == [data |-> <<>>, settings |-> <<>>, loaded |-> FALSE]

\* No backlink element, no observer and no timer
NoBacklinks ==
  [doc |-> <<>>, els |-> <<>>, observer |-> FALSE, updateTimeout |-> 0, timers |-> {},
   records |-> {}, jobs |-> {}, hostRenders |-> 0, elapsed |-> 0, calls |-> 0, burst |-> 0]

\* No drop in progress
NoEvent == [file |-> "", handlers |-> {}, insert |-> FALSE, format |-> "", handled |-> 0]

\* No editor and no drop
NoDrop ==
  [rev |-> "", titles |-> <<>>, lines |-> <<>>, since |-> 0, lastDropData |-> "",
   timers |-> {}, event |-> NoEvent, drops |-> 0, chains |-> <<>>]

\* No modal in the document
NoModal == [open |-> FALSE, isBookmark |-> FALSE, input |-> FALSE, value |-> ""]

\* No bookmark service
NoBookmark ==
  [phase |-> "unloaded", enableForBookmarks |-> FALSE, isHooked |-> FALSE,
   mutationObserver |-> FALSE, observers |-> 0, modal |-> NoModal,
   polls |-> <<>>, wrote |-> "none"]

LateIdle ==
  /\ config = NoConfig
  /\ backlinks = NoBacklinks
  /\ drop = NoDrop
  /\ bookmark = NoBookmark

\* No suggester and no modal: no matchReasons map
NoReasons == [records |-> <<>>, settings |-> <<>>, link |-> <<>>, quick |-> <<>>]

SuggestIdle ==
  /\ gIn = [query |-> <<>>]
  /\ gOut = [link |-> NotSuggested, quick |-> NotSuggested]
  /\ reasons = NoReasons

(***************************************************************************)
(* SpecResolve: the builders applied to one document.                      *)
(***************************************************************************)
BaseName == <<"n">>

\* Frontmatters given to the builders: every value of the property key,
\* and every value of aliases beside a plain title.
FmInputs ==
  {NoFm} \cup {Fm(p, UndefV) : p \in Values} \cup {Fm(StrV(<<"a">>), a) : a \in Values}

Docs ==
  [ext : {"md", "mdx", "txt"}, content : FmInputs, mtime : 0..MaxMtime,
   enableMdxSupport : BOOLEAN]

DocFile(d) ==
  [id |-> 1, path |-> d.ext, basename |-> BaseName, ext |-> d.ext, mtime |-> d.mtime]

\* metadataCache.getFileCache(file)?.frontmatter: the host indexes .md only
DocIndexed(d) == IF d.ext = "md" THEN d.content ELSE NoFm

InitResolve ==
  /\ rDoc \in Docs
  /\ rOut = ResolveOutIdle
  /\ WorldIdle /\ LinkIdle /\ FmIdle /\ LateIdle /\ SearchIdle /\ SuggestIdle /\ HooksIdle /\ SurfIdle

\* utils/search buildFileCache (async revision) over the one-file list
\* [rDoc], run to completion with nothing interleaved
RunBuild ==
  /\ ~rOut.build.ran
  /\ LET file == DocFile(rDoc)
         supported == isFileTypeSupported(file.ext, rDoc.enableMdxSupport)
         frontmatter ==
           IF file.ext = "md" THEN DocIndexed(rDoc)
           ELSE getFrontmatterResult(file.ext, rDoc.enableMdxSupport,
                                     DocIndexed(rDoc), rDoc.content)
     IN  rOut' = [rOut EXCEPT !.build =
                    IF supported THEN Ran(TRUE, buildFileCacheEntry(file, frontmatter))
                    ELSE Ran(FALSE, NoRec)]
  /\ UNCHANGED <<rDoc, searchVars, suggestVars, hookVars, surfVars, lateVars, worldVars, linkVars, fmVars>>

\* utils/search buildFileCache (synchronous revision) over the list [rDoc]
RunBuildSync ==
  /\ ~rOut.buildSync.ran
  /\ rOut' = [rOut EXCEPT !.buildSync =
                Ran(TRUE, buildFileCacheEntrySync(DocFile(rDoc), DocIndexed(rDoc)))]
  /\ UNCHANGED <<rDoc, searchVars, suggestVars, hookVars, surfVars, lateVars, worldVars, linkVars, fmVars>>

\* LinkTitleSuggest.updateFileCache(file)
RunUpdate ==
  /\ ~rOut.update.ran
  /\ rOut' = [rOut EXCEPT !.update =
                Ran(TRUE, updateFileCacheEntry(DocFile(rDoc), DocIndexed(rDoc)))]
  /\ UNCHANGED <<rDoc, searchVars, suggestVars, hookVars, surfVars, lateVars, worldVars, linkVars, fmVars>>

\* Every surface draws the file rDoc: the synchronous ones read the host's
\* index, the others getFrontmatter
RunSurfaces ==
  /\ ~rOut.surfaces.ran
  /\ LET file == DocFile(rDoc)
         indexed == DocIndexed(rDoc)
         supported == isFileTypeSupported(file.ext, rDoc.enableMdxSupport)
         frontmatter == getFrontmatterResult(file.ext, rDoc.enableMdxSupport,
                                             indexed, rDoc.content)
     IN  rOut' = [rOut EXCEPT !.surfaces =
                    [ran |-> TRUE,
                     frame |-> getActiveFileTitle(indexed, file.basename),
                     explorer |-> resolveTitle(supported, frontmatter, file.basename),
                     tab |-> tabTitleText(indexed, file.basename),
                     graph |-> getDisplayText(IF file.ext = "md" THEN indexed
                                              ELSE frontmatter, file.basename),
                     dragDrop |-> dragDropDisplayName(indexed, file.basename),
                     bookmark |-> bookmarkTitle(frontmatter, file.basename)]]
  /\ UNCHANGED <<rDoc, searchVars, suggestVars, hookVars, surfVars, lateVars, worldVars, linkVars, fmVars>>

NextResolve == RunBuild \/ RunBuildSync \/ RunUpdate \/ RunSurfaces

SpecResolve == InitResolve /\ [][NextResolve]_vars

(***************************************************************************)
(* Claims on the builders (SpecResolve).                                   *)
(***************************************************************************)
\* The frontmatter each builder's own lookup handed it for rDoc
BuildFrontmatter ==
  IF rDoc.ext = "md" THEN DocIndexed(rDoc)
  ELSE getFrontmatterResult(rDoc.ext, rDoc.enableMdxSupport, DocIndexed(rDoc), rDoc.content)

IsScalar(x) == x.k \in {"string", "number", "boolean"}

\* What the resolution contract asks of a record, for frontmatter M
ResolvedAsSpecified(rec, M) ==
  LET scalarName == ~M.none /\ IsScalar(M.prop) /\ Trim(ToStr(M.prop)) # <<>>
  IN  IF scalarName
      THEN rec.displayName = Trim(ToStr(M.prop)) /\ rec.isCustomDisplay
      ELSE rec.displayName = BaseName /\ ~rec.isCustomDisplay

\* C1: every record produced by a bulk builder or by updateFileCache has
\* displayName = trim(M[k]) and isCustomDisplay = TRUE when M[k] is a scalar
\* whose trimmed string form is non-empty, and displayName = basename and
\* isCustomDisplay = FALSE in every other case (arrays and objects included).
C1_ResolutionCorrect ==
  /\ rOut.build.has => ResolvedAsSpecified(rOut.build.cache, BuildFrontmatter)
  /\ rOut.buildSync.has => ResolvedAsSpecified(rOut.buildSync.cache, DocIndexed(rDoc))
  /\ rOut.update.has => ResolvedAsSpecified(rOut.update.cache, DocIndexed(rDoc))

\* C6: after a rebuild over the current documents the cache holds one record
\* for the document iff it is a live supported document, and that record is
\* field for field the one updateFileCache produces for the same document
\* and metadata.
C6_RebuildEqualsResolve ==
  (rOut.build.ran /\ rOut.update.ran) =>
    /\ rOut.build.has <=> isFileTypeSupported(rDoc.ext, rDoc.enableMdxSupport)
    /\ (rOut.build.has /\ BuildFrontmatter = DocIndexed(rDoc)) =>
         rOut.build.cache = rOut.update.cache

(***************************************************************************)
(* FrontmatterCache (utils/frontmatter-cache).                             *)
(***************************************************************************)
NewRead(id, key, f) ==
  [id |-> id, key |-> key, file |-> f, got |-> FALSE, val |-> NoFm, superseded |-> FALSE,
   failed |-> FALSE]

\* get(app, file, settings), as its callers call it: for a live .mdx file
\* while MDX support is on.  A hit returns the cached value, a pending key
\* awaits the stored promise, and otherwise getFrontmatter starts a read of
\* the content.  superseded (history) marks the reads of this key that
\* were in flight when a newer one was issued.
Get(f) ==
  /\ files[f].alive /\ Ext(f) = "mdx" /\ enableMdxSupport
  /\ LET key == files[f].path
     IN  IF fmCache[key].known \/ fmPending[key] # 0
         THEN UNCHANGED fmVars
         ELSE /\ Cardinality(reads) < MaxReads
              /\ LET id == CHOOSE i \in 1..MaxReads : \A r \in reads : r.id # i
                 IN  /\ reads' = {[r EXCEPT !.superseded = @ \/ r.key = key] : r \in reads}
                                   \cup {NewRead(id, key, f)}
                     /\ fmPending' = [fmPending EXCEPT ![key] = id]
              /\ UNCHANGED fmCache
  /\ UNCHANGED <<inputVars, worldVars, linkVars>>

\* ReadResult with the header block cut short: a title string keeps only its
\* first character
ReadResultCut(fs, f) ==
  IF ~fs[f].alive THEN NoFm
  ELSE IF fs[f].fm.none \/ fs[f].fm.prop.k # "string" THEN fs[f].fm
  ELSE Fm(StrV(SubSeq(fs[f].fm.prop.v, 1, 1)), fs[f].fm.aliases)

\* ReadResult without the catch: the read of a deleted file is not turned
\* into null
ReadResultUncaught(fs, f) == fs[f].fm

\* getFrontmatter of a .mdx file once the host has read it: the parsed
\* header block of the content; a failed read is caught and gives null
ReadResult(fs, f) == IF fs[f].alive THEN fs[f].fm ELSE NoFm

\* app.vault.read(file) inside getFrontmatter: the host reads the content;
\* failed (history) marks the read of a file that is gone
HostRead(r) ==
  /\ r \in reads /\ ~r.got
  /\ reads' = (reads \ {r}) \cup {[r EXCEPT !.got = TRUE, !.val = ReadResult(files, r.file),
                                             !.failed = ~files[r.file].alive]}
  /\ UNCHANGED <<inputVars, worldVars, linkVars, fmCache, fmPending>>

\* get() after `await promise`: cache.set(key, result), and in finally
\* pending.delete(key)
ResolveRead(r) ==
  /\ r \in reads /\ r.got
  /\ fmCache' = [fmCache EXCEPT ![r.key] = Known(r.val)]
  /\ fmPending' = [fmPending EXCEPT ![r.key] = 0]
  /\ reads' = reads \ {r}
  /\ UNCHANGED <<inputVars, worldVars, linkVars>>

\* getSync(key)
getSync(key) == fmCache[key]

\* invalidate(key) that forgets the promise and keeps the cached value
invalidateKeepsCache(key) ==
  /\ fmPending' = [fmPending EXCEPT ![key] = 0]
  /\ UNCHANGED fmCache

\* invalidate(key)
invalidate(key) ==
  /\ fmCache' = [fmCache EXCEPT ![key] = Unknown]
  /\ fmPending' = [fmPending EXCEPT ![key] = 0]

(***************************************************************************)
(* CacheService and the link suggester's file display cache.               *)
(***************************************************************************)
EmptyCache == [p \in Paths |-> NoRec]

\* utils/search buildFileCache(files, ...) from its call to the first await
\* that waits for the host: the module import resolves and files.map runs
\* every callback in the same turn.  An unsupported file is skipped, a .md
\* file is resolved from the metadata index and set at once, and a .mdx
\* file waits in getFrontmatter for the host to read it (rd: "reading").
buildFileCacheStart(id, list, fs, mdx) ==
  LET md == {f \in list : Ext(f) = "md" /\ isFileTypeSupported("md", mdx)}
      rd == {f \in list : Ext(f) = "mdx" /\ isFileTypeSupported("mdx", mdx)}
  IN  [id |-> id, list |-> list,
       cache |-> [p \in Paths |->
                    IF \E f \in md : fs[f].path = p
                    THEN LET f == CHOOSE g \in md : fs[g].path = p
                         IN  buildFileCacheEntry(TFile(fs, f), Indexed(fs, f))
                    ELSE NoRec],
       rd |-> [f \in Files |-> IF f \in rd THEN "reading" ELSE "none"],
       val |-> [f \in Files |-> NoFm]]

BuildEnded(b) == \A f \in Files : b.rd[f] \in {"none", "done"}

\* LinkTitleSuggest.buildFileCache, asynchronous: awaits the map of
\* buildFileCache and replaces this.fileCache by it
StoreBuilt(b) ==
  IF BuildEnded(b)
  THEN fileCache' = b.cache /\ builds' = {c \in builds : c.id # b.id}
  ELSE UNCHANGED fileCache /\ builds' = {c \in builds : c.id # b.id} \cup {b}

\* LinkTitleSuggest.buildFileCache, called while the vault is fs: the build
\* runs over the files the vault holds at the call
StartBuild(fs) ==
  /\ Cardinality(builds) < MaxBuilds
  /\ LET id == CHOOSE i \in 1..MaxBuilds : \A b \in builds : b.id # i
     IN  StoreBuilt(buildFileCacheStart(id, {f \in Files : fs[f].alive}, fs, enableMdxSupport))

\* app.vault.read(file) inside the getFrontmatter of a build: the host reads
\* the content of f
BuildHostRead(b, f) ==
  /\ b \in builds /\ b.rd[f] = "reading"
  /\ builds' = (builds \ {b}) \cup
       {[b EXCEPT !.rd[f] = "got", !.val[f] = ReadResult(files, f)]}
  /\ UNCHANGED <<inputVars, worldVars, fileCache, fmVars>>

\* The callback of a .mdx file after `await getFrontmatter`: the record is
\* resolved and set under the path the file has by now; Promise.all and
\* the caller go on once the last callback has ended
BuildFileDone(b, f) ==
  /\ b \in builds /\ b.rd[f] = "got"
  /\ StoreBuilt([b EXCEPT !.rd[f] = "done",
                          !.cache[files[f].path] =
                             buildFileCacheEntry(TFile(files, f), b.val[f])])
  /\ UNCHANGED <<inputVars, worldVars, fmVars>>

\* CacheService.invalidateCache(file), the vault being fs
invalidateCache(fs, f) ==
  IF suggest
  THEN fileCache' = [fileCache EXCEPT ![fs[f].path] =
                       updateFileCacheEntry(TFile(fs, f), Indexed(fs, f))]
  ELSE UNCHANGED fileCache

\* CacheService.rebuildCache(), the vault being fs
rebuildCache(fs) == IF suggest THEN StartBuild(fs) ELSE UNCHANGED <<fileCache, builds>>

(***************************************************************************)
(* The handlers onload registers, each with the host event it handles.     *)
(***************************************************************************)
\* vault 'modify': the content of f changed (v: the new frontmatter of a
\* .mdx file; a .md file waits for the host to index it again)
VaultModify(f, v) ==
  /\ files[f].alive /\ files[f].mtime < MaxMtime
  /\ files' = [files EXCEPT ![f].mtime = @ + 1,
                            ![f].fm = IF Ext(f) = "mdx" THEN v ELSE @,
                            ![f].hist = IF Ext(f) = "mdx" THEN @ \cup {v} ELSE @,
                            ![f].dirty = Ext(f) = "md"]
  /\ IF Handled(f)
     THEN invalidateCache(files', f) /\ invalidate(files'[f].path)
     ELSE UNCHANGED <<fileCache, fmCache, fmPending>>
  /\ UNCHANGED <<inputVars, enableMdxSupport, suggest, builds, reads>>

\* vault 'rename' (file, oldPath): file.path is already the new path
VaultRename(f, newPath) ==
  /\ files[f].alive /\ newPath \in PathsOf(f) /\ newPath # files[f].path
  /\ files' = [files EXCEPT ![f].path = newPath]
  /\ IF Handled(f)
     THEN invalidateCache(files', f) /\ invalidate(files'[f].path)
     ELSE UNCHANGED <<fileCache, fmCache, fmPending>>
  /\ UNCHANGED <<inputVars, enableMdxSupport, suggest, builds, reads>>

\* vault 'delete'
VaultDelete(f) ==
  /\ files[f].alive
  /\ files' = [files EXCEPT ![f].alive = FALSE, ![f].dirty = FALSE]
  /\ IF Handled(f)
     THEN invalidateCache(files', f) /\ invalidate(files'[f].path)
     ELSE UNCHANGED <<fileCache, fmCache, fmPending>>
  /\ UNCHANGED <<inputVars, enableMdxSupport, suggest, builds, reads>>

\* metadataCache 'changed': the host has indexed a modified .md file again
MetadataChanged(f, v) ==
  /\ files[f].alive /\ Ext(f) = "md" /\ files[f].dirty
  /\ files' = [files EXCEPT ![f].fm = v, ![f].hist = @ \cup {v}, ![f].dirty = FALSE]
  /\ IF Handled(f) THEN rebuildCache(files') ELSE UNCHANGED <<fileCache, builds>>
  /\ UNCHANGED <<inputVars, enableMdxSupport, suggest, fmVars>>

\* metadataCache 'resolved'
MetadataResolved ==
  /\ rebuildCache(files)
  /\ UNCHANGED <<inputVars, worldVars, fmVars>>

\* The MDX support toggle of the settings tab
\* getDisplayText of a graph node of the .mdx file f: the synchronous
\* revision calls get() when getSync gives nothing truthy, the asynchronous
\* revision when it gives undefined
NodeRender(f, revision) ==
  /\ files[f].alive /\ Ext(f) = "mdx" /\ enableMdxSupport
  /\ LET cached == getSync(files[f].path)
     IN  IF \/ revision = "sync" /\ (~cached.known \/ cached.val.none)
            \/ revision = "async" /\ ~cached.known
         THEN Get(f)
         ELSE UNCHANGED vars

ToggleMdx ==
  /\ enableMdxSupport' = ~enableMdxSupport
  /\ UNCHANGED <<inputVars, files, suggest, linkVars, fmVars>>

(***************************************************************************)
(* Spec: the frontmatter cache of a vault holding one MDX document, with   *)
(* the link suggester off.                                                 *)
(***************************************************************************)
Init ==
  /\ InitWorld({2})
  /\ enableMdxSupport \in BOOLEAN
  /\ LinkIdle /\ FmIdle /\ LateIdle /\ ResolveIdle /\ SearchIdle /\ SuggestIdle /\ HooksIdle /\ SurfIdle

Next ==
  \/ \E f \in Files : Get(f)
  \/ \E r \in reads : HostRead(r)
  \/ \E r \in reads : ResolveRead(r)
  \/ \E f \in Files, v \in FmVals : VaultModify(f, v)
  \/ \E f \in Files, p \in Paths : VaultRename(f, p)
  \/ \E f \in Files : VaultDelete(f)
  \/ \E f \in Files, revision \in {"sync", "async"} : NodeRender(f, revision)
  \/ ToggleMdx

Spec == Init /\ [][Next]_vars

(***************************************************************************)
(* Claims on the frontmatter cache (Spec).                                 *)
(***************************************************************************)
\* C2: last-issued-wins for one identity: the result of a read that was
\* superseded (a newer get of the same identity was issued while it was in
\* flight, after an invalidate) is discarded when it arrives and never
\* stored, so the cache keeps what it held, whatever the order in which the
\* reads complete.
C2_LastIssuedWins ==
  [][\A r \in reads :
       (r.got /\ r.superseded /\ reads' = reads \ {r}) =>
         fmCache'[r.key] = fmCache[r.key]]_vars

\* C3: in every reachable state at most one read started by get() is in
\* flight for each identity.
C3_OneReadPerIdentity ==
  \A r1, r2 \in reads : r1.key = r2.key => r1.id = r2.id

\* C9: in every state with no read in flight, getSync(path) is Unknown or
\* equal to the frontmatter of the current content of the live document at
\* that path; no entry survives for a path whose document was modified,
\* renamed away or deleted.
C9_InvalidatedOnChange ==
  reads = {} =>
    \A p \in Paths :
      getSync(p).known =>
        \E f \in Files : files[f].alive /\ files[f].path = p /\ getSync(p).val = files[f].fm

(***************************************************************************)
(* SpecLink: the link suggester's file display cache over a vault holding  *)
(* one Markdown and one MDX document.  The constructor of LinkTitleSuggest *)
(* has called buildFileCache.  The Markdown document is edited, renamed    *)
(* and deleted; the MDX document is only edited.                           *)
(***************************************************************************)
MdFiles == {f \in Files : Ext(f) = "md"}

\* new LinkTitleSuggest(plugin) over the vault `files`: this.fileCache is
\* the empty map until the build the constructor starts has ended
Constructed ==
  /\ suggest = TRUE
  /\ LET b == buildFileCacheStart(1, {f \in Files : files[f].alive}, files, enableMdxSupport)
     IN  IF BuildEnded(b)
         THEN fileCache = b.cache /\ builds = {}
         ELSE fileCache = EmptyCache /\ builds = {b}

InitLink ==
  /\ InitWorld(Files)
  /\ enableMdxSupport \in BOOLEAN
  /\ Constructed
  /\ FmIdle /\ LateIdle /\ ResolveIdle /\ SearchIdle /\ SuggestIdle /\ HooksIdle /\ SurfIdle

NextLink ==
  \/ \E b \in builds, f \in Files : BuildHostRead(b, f)
  \/ \E b \in builds, f \in Files : BuildFileDone(b, f)
  \/ \E f \in Files, v \in FmVals : VaultModify(f, v)
  \/ \E f \in MdFiles, p \in Paths : VaultRename(f, p)
  \/ \E f \in MdFiles : VaultDelete(f)
  \/ \E f \in Files, v \in FmVals : MetadataChanged(f, v)
  \/ MetadataResolved

SpecLink == InitLink /\ [][NextLink]_vars

C7_DeleteRemovesEntry ==
  [][\A f \in Files :
       (files[f].alive /\ ~files'[f].alive) => fileCache'[files[f].path].absent]_vars

\* C8: once the vault 'rename' event (file, oldPath) has been handled, the
\* file display cache has no entry keyed by oldPath and one keyed by the
\* new path.
C8_RenameMovesEntry ==
  [][\A f \in Files :
       files'[f].path # files[f].path =>
         /\ fileCache'[files[f].path].absent
         /\ ~fileCache'[files'[f].path].absent]_vars

(***************************************************************************)
(* SpecReads: one MDX document, MDX support on, read by the graph view     *)
(* (FrontmatterCache.get) and by the link suggester's builds while it is   *)
(* edited.                                                                 *)
(***************************************************************************)
InitReads ==
  /\ InitWorld({2})
  /\ enableMdxSupport = TRUE
  /\ Constructed
  /\ FmIdle /\ LateIdle /\ ResolveIdle /\ SearchIdle /\ SuggestIdle /\ HooksIdle /\ SurfIdle

NextReads ==
  \/ \E f \in Files : Get(f)
  \/ \E r \in reads : HostRead(r)
  \/ \E r \in reads : ResolveRead(r)
  \/ \E b \in builds, f \in Files : BuildHostRead(b, f)
  \/ \E b \in builds, f \in Files : BuildFileDone(b, f)
  \/ \E f \in Files, v \in FmVals : VaultModify(f, v)
  \/ MetadataResolved

SpecReads == InitReads /\ [][NextReads]_vars

\* The names of the versions the document of file f has had, as the graph
\* view and as a build resolve them
VersionTexts(f, p) == {getDisplayText(h, BaseOf(p)) : h \in files[f].hist}
VersionNames(f) ==
  {buildFileCacheEntry(TFile(files, f), h).displayName : h \in files[f].hist}

MaxAliases == 2

Names == {<<"a">>, <<"b">>, <<"c">>}
Scores == {-1, 0}

\* What the function of prepareFuzzySearch / prepareSimpleSearch returns
EmptyMatch == [kind |-> "empty", score |-> 0]
Match(score) == [kind |-> "match", score |-> score]
MatchResults == {NullMatch, EmptyMatch} \cup {Match(n) : n \in Scores}

\* `m && m.matches.length > 0`
IsMatch(m) == m.kind = "match"

\* The guard of the alias tier
AliasTierAlways(matchType, includeAliasesInSearch, aliases) ==
  includeAliasesInSearch /\ Len(aliases) > 0

AliasTierAttempted(matchType, includeAliasesInSearch, aliases) ==
  matchType = "none" /\ includeAliasesInSearch /\ Len(aliases) > 0

\* The alias loop: the first alias that matches, 0 if none does
FirstAlias(aliases, search) ==
  IF \E i \in 1..Len(aliases) : IsMatch(search[aliases[i]])
  THEN CHOOSE i \in 1..Len(aliases) :
         /\ IsMatch(search[aliases[i]])
         /\ \A j \in 1..(i - 1) : ~IsMatch(search[aliases[j]])
  ELSE 0

Downranked(m) == [m EXCEPT !.score = @ - 1]

Searched(matchType, bestMatch) ==
  [ran |-> TRUE, added |-> IsMatch(bestMatch), matchType |-> matchType,
   matchedInTitle |-> matchType = "title", matchedInFilename |-> matchType = "filename",
   matchedInAlias |-> matchType = "alias", score |-> bestMatch.score]

\* The alias tier, shared by the two searches: matchType and bestMatch
\* after it, from those before it
AliasTier(c, matchType, bestMatch) ==
  LET i == FirstAlias(c.aliases, c.search)
  IN  IF AliasTierAttempted(matchType, c.includeAliasesInSearch, c.aliases) /\ i # 0
      THEN Searched("alias", Downranked(c.search[c.aliases[i]]))
      ELSE Searched(matchType, bestMatch)

\* LinkTitleSuggest.performSearch, the body of the loop for one record
LinkPerformSearch(c) ==
  LET primaryMatch == c.search[c.displayName]
      filenameMatch == c.search[c.basename]
  IN  IF IsMatch(primaryMatch) THEN Searched("title", primaryMatch)
      ELSE IF /\ c.includeFilenameInSearch /\ c.basename # c.displayName
              /\ IsMatch(filenameMatch)
           THEN AliasTier(c, "filename", Downranked(filenameMatch))
           ELSE AliasTier(c, "none", primaryMatch)

\* QuickSwitchModal.performSearch, the body of the loop for one record
QuickPerformSearch(c) ==
  LET primaryMatch == c.search[c.displayName]
      filenameMatch == c.search[c.basename]
  IN  IF c.isCustomDisplay /\ IsMatch(primaryMatch) THEN AliasTier(c, "title", primaryMatch)
      ELSE IF c.includeFilenameInSearch /\ c.basename # c.displayName
           THEN IF IsMatch(filenameMatch)
                THEN AliasTier(c, "filename", Downranked(filenameMatch))
                ELSE AliasTier(c, "none", NullMatch)
           ELSE IF ~c.isCustomDisplay /\ IsMatch(filenameMatch)
                THEN AliasTier(c, "filename", filenameMatch)
                ELSE AliasTier(c, "none", NullMatch)

\* The records, settings and matchers searched: any file name, any display
\* name (the file name itself, a stale one, or a property value), up to
\* MaxAliases aliases, and any answer of the matcher for each string
SearchInputs ==
  [basename : Names, displayName : Names, aliases : SeqsUpTo(Names, MaxAliases),
   isCustomDisplay : BOOLEAN, includeFilenameInSearch : BOOLEAN,
   includeAliasesInSearch : BOOLEAN, search : [Names -> MatchResults]]

InitSearch ==
  /\ sIn \in SearchInputs
  /\ sOut = [link |-> NotSearched, quick |-> NotSearched]
  /\ rDoc = NoDoc
  /\ rOut = ResolveOutIdle
  /\ WorldIdle /\ LinkIdle /\ FmIdle /\ LateIdle /\ SuggestIdle /\ HooksIdle /\ SurfIdle

RunLinkSearch ==
  /\ ~sOut.link.ran
  /\ sOut' = [sOut EXCEPT !.link = LinkPerformSearch(sIn)]
  /\ UNCHANGED <<sIn, resolveVars, suggestVars, hookVars, surfVars, lateVars, worldVars, linkVars, fmVars>>

RunQuickSearch ==
  /\ ~sOut.quick.ran
  /\ sOut' = [sOut EXCEPT !.quick = QuickPerformSearch(sIn)]
  /\ UNCHANGED <<sIn, resolveVars, suggestVars, hookVars, surfVars, lateVars, worldVars, linkVars, fmVars>>

NextSearch == RunLinkSearch \/ RunQuickSearch

SpecSearch == InitSearch /\ [][NextSearch]_vars

(***************************************************************************)
(* Claims on the search tiers (SpecSearch).                                *)
(***************************************************************************)
\* The candidate matches the query on its file name and on an alias, not on
\* its title, and file names are searched
FilenameAndAliasOnly ==
  /\ sIn.includeFilenameInSearch
  /\ ~IsMatch(sIn.search[sIn.displayName])
  /\ IsMatch(sIn.search[sIn.basename])
  /\ \E i \in 1..Len(sIn.aliases) : IsMatch(sIn.search[sIn.aliases[i]])

RecordedAsFilename(out) ==
  /\ out.added
  /\ out.matchType = "filename"
  /\ out.matchedInFilename /\ ~out.matchedInAlias /\ ~out.matchedInTitle

\* C10: a candidate that matches the query on its file name and on at least
\* one alias but not on its title, with includeFilenameInSearch on, is
\* recorded with the match reason file-name and never alias, by the link
\* suggester and by the quick switcher.
C10_FilenameBeforeAlias ==
  FilenameAndAliasOnly =>
    /\ sOut.link.ran => RecordedAsFilename(sOut.link)
    /\ sOut.quick.ran => RecordedAsFilename(sOut.quick)

\* Both searches have run on such a candidate with aliases searched too
C10_Witness ==
  /\ FilenameAndAliasOnly /\ sIn.includeAliasesInSearch
  /\ sOut.link.ran /\ sOut.quick.ran
  /\ sIn.isCustomDisplay

\* The tiers of the search policy, in order, on the candidate sIn: the
\* title tier matches displayName, the file-name tier the basename when
\* file names are searched, the alias tier the aliases when they are
TitleTierMatches == IsMatch(sIn.search[sIn.displayName])
FilenameTierMatches == sIn.includeFilenameInSearch /\ IsMatch(sIn.search[sIn.basename])
AliasTierMatches ==
  sIn.includeAliasesInSearch /\ FirstAlias(sIn.aliases, sIn.search) # 0

FirstTier ==
  IF TitleTierMatches THEN "title"
  ELSE IF FilenameTierMatches THEN "filename"
  ELSE IF AliasTierMatches THEN "alias"
  ELSE "none"

\* The matcher's own score of the string the tier matched
TierScore(tier) ==
  CASE tier = "title" -> sIn.search[sIn.displayName].score
    [] tier = "filename" -> sIn.search[sIn.basename].score
    [] tier = "alias" -> sIn.search[sIn.aliases[FirstAlias(sIn.aliases, sIn.search)]].score
    [] OTHER -> 0

OneReason(out) ==
  Cardinality({r \in {"title", "filename", "alias"} :
                 \/ r = "title" /\ out.matchedInTitle
                 \/ r = "filename" /\ out.matchedInFilename
                 \/ r = "alias" /\ out.matchedInAlias}) = 1

NoTierStacking(out) ==
  /\ out.added <=> FirstTier # "none"
  /\ out.added =>
       /\ OneReason(out)
       /\ out.matchType = FirstTier
       /\ out.score \in {TierScore(FirstTier), TierScore(FirstTier) - 1}

\* C11: no tier-stacking: the candidate is in the results iff at least one
\* enabled tier matches, and then exactly one of matchedInTitle,
\* matchedInFilename, matchedInAlias is set, that of the first tier in the
\* order title, file name, alias that matched, and the score is that
\* tier's; in the link suggester and in the quick switcher.
C11_NoTierStacking ==
  /\ sOut.link.ran => NoTierStacking(sOut.link)
  /\ sOut.quick.ran => NoTierStacking(sOut.quick)

Downranking(out) ==
  out.added =>
    /\ out.matchType = "title" => out.score = TierScore("title")
    /\ out.matchType = "filename" => out.score = TierScore("filename") - 1
    /\ out.matchType = "alias" => out.score = TierScore("alias") - 1

\* C12: every result whose match reason is file-name or alias carries the
\* matcher's score of the matched string minus 1, and every title result
\* the matcher's score unchanged.
C12_ScoreDownranking ==
  /\ sOut.link.ran => Downranking(sOut.link)
  /\ sOut.quick.ran => Downranking(sOut.quick)

\* C13: for the same record, query and settings, the link suggester and
\* the quick switcher give the candidate the same tier (title, file name,
\* alias or no match) and the same score.
C13_OnePolicy ==
  (sOut.link.ran /\ sOut.quick.ran) =>
    /\ sOut.link.added <=> sOut.quick.added
    /\ sOut.link.added =>
         /\ sOut.link.matchType = sOut.quick.matchType
         /\ sOut.link.score = sOut.quick.score

(***************************************************************************)
(* SpecSuggest: the suggestion lists.  LinkTitleSuggest.getSuggestions and *)
(* QuickSwitchModal.getSuggestions on one non-empty trimmed query: the     *)
(* per-record tiers above, the unresolved links of the host, the host's    *)
(* sort, the "show existing only" filter, the create-new item and the      *)
(* display limit.                                                          *)
(***************************************************************************)
MaxOthers == 8
MaxLinks == 2
MaxCandAliases == 1
MaxFewLinks == 1

\* QuickSwitchModal: `this.limit = 8`
limit == 8
\* The score given to the create-new item
NewNoteScore == 1000

Texts == {<<"a">>, <<"A">>, <<"b">>}

\* String.prototype.toLowerCase on the alphabet of Texts
Lower(s) == [i \in DOMAIN s |-> IF s[i] = "A" THEN "a" ELSE s[i]]

\* `new Set<string>()` filled by add: first occurrences, in insertion order
RECURSIVE unresolvedSet(_)
unresolvedSet(links) ==
  IF links = <<>> THEN <<>>
  ELSE LET before == unresolvedSet(SubSeq(links, 1, Len(links) - 1))
           last == links[Len(links)]
       IN  IF \E i \in 1..Len(before) : before[i] = last THEN before
           ELSE Append(before, last)

\* sortSearchResults of the host: by score, highest first, stable
RECURSIVE sortSearchResults(_)
sortSearchResults(results) ==
  IF results = <<>> THEN <<>>
  ELSE LET before == sortSearchResults(SubSeq(results, 1, Len(results) - 1))
           last == results[Len(results)]
           k == Cardinality({i \in 1..Len(before) : before[i].score >= last.score})
       IN  SubSeq(before, 1, k) \o <<last>> \o SubSeq(before, k + 1, Len(before))

\* Array.prototype.slice(0, n)
Slice(results, n) == SubSeq(results, 1, IF Len(results) < n THEN Len(results) ELSE n)

\* The kinds of item a suggestion list holds
FileItem(text, score) == [kind |-> "file", text |-> text, score |-> score]
UnresolvedItemDownranked(text, match) ==
  [kind |-> "unresolved", text |-> text, score |-> Downranked(match).score]
UnresolvedItem(text, match) == [kind |-> "unresolved", text |-> text, score |-> match.score]
NewNoteItem(query) == [kind |-> "new", text |-> query, score |-> NewNoteScore]
NoMatchItem == [kind |-> "nomatch", text |-> <<>>, score |-> 0]

\* The further files of the vault: g.others files that the matcher matches
\* with the best score on every name and that do not equal the query
OtherName == <<"o">>
OtherResults(g) == [i \in 1..g.others |-> FileItem(OtherName, 0)]

\* The record of g.cand as the loops of the two searches see it
CandRecord(g) ==
  [basename |-> g.cand.basename, displayName |-> g.cand.displayName,
   aliases |-> g.cand.aliases, isCustomDisplay |-> g.cand.isCustomDisplay,
   includeFilenameInSearch |-> g.includeFilenameInSearch,
   includeAliasesInSearch |-> g.includeAliasesInSearch, search |-> g.search]

\* The results the loop over the cache pushes
CandResults(g, out) ==
  OtherResults(g) \o
  (IF out.added THEN <<FileItem(g.cand.displayName, out.score)>> ELSE <<>>)

\* The unresolved links pushed: those of the host's set that match
UnresolvedResults(g) ==
  IF g.showExistingOnly THEN <<>>
  ELSE LET set == unresolvedSet(g.unresolved)
           matched == SelectSeq(set, LAMBDA t : IsMatch(g.search[t]))
       IN  [i \in 1..Len(matched) |-> UnresolvedItem(matched[i], g.search[matched[i]])]

\* LinkTitleSuggest.getSuggestions / performSearch, for a non-empty query
LinkGetSuggestions(g) ==
  LET searchableSuggestions ==
        CandResults(g, LinkPerformSearch(CandRecord(g))) \o UnresolvedResults(g)
      sorted == sortSearchResults(searchableSuggestions)
      suggestions == IF g.showExistingOnly
                     THEN SelectSeq(sorted, LAMBDA r : r.kind = "file")
                     ELSE sorted
  IN  IF Len(suggestions) = 0 THEN <<NoMatchItem>> ELSE suggestions

\* The exact-match test of QuickSwitchModal.performSearch on the record
ExactFile(g) ==
  LET lowerQuery == Lower(g.query)
  IN  \/ Lower(g.cand.displayName) = lowerQuery
      \/ g.includeFilenameInSearch /\ Lower(g.cand.basename) = lowerQuery
      \/ /\ g.includeAliasesInSearch
         /\ \E i \in 1..Len(g.cand.aliases) : Lower(g.cand.aliases[i]) = lowerQuery

\* QuickSwitchModal.performSearch, from the loop to the returned slice
QuickPerformSearchAll(g) ==
  LET out == QuickPerformSearch(CandRecord(g))
      results == sortSearchResults(CandResults(g, out) \o UnresolvedResults(g))
      filteredResults == IF g.showExistingOnly
                         THEN SelectSeq(results, LAMBDA r : r.kind \in {"file", "new"})
                         ELSE results
      exactFile == out.added /\ ExactFile(g)
      exactMatch == IF ~g.showExistingOnly /\ ~exactFile
                    THEN \E i \in 1..Len(g.unresolved) :
                            Lower(g.unresolved[i]) = Lower(g.query)
                    ELSE exactFile
  IN  Slice(IF ~exactMatch THEN <<NewNoteItem(g.query)>> \o filteredResults
            ELSE filteredResults, limit)

\* QuickSwitchModal.getSuggestions, for a non-empty query
QuickGetSuggestions(g) ==
  IF ~g.enableForQuickSwitcher
  THEN LET match == g.search[g.cand.basename]
           results == sortSearchResults(
                        OtherResults(g) \o
                        (IF IsMatch(match) THEN <<FileItem(g.cand.basename, match.score)>>
                         ELSE <<>>))
       IN  Slice(IF Len(results) = 0 THEN <<NewNoteItem(g.query)>> ELSE results, limit)
  ELSE QuickPerformSearchAll(g)

\* What the matcher answers in SpecSuggest: no match, or a match of score 0
SuggestMatches == {NullMatch, Match(0)}

\* The settings, the query and the matcher
SuggestSettings ==
  [enableForQuickSwitcher : BOOLEAN, showExistingOnly : BOOLEAN,
   includeFilenameInSearch : BOOLEAN, includeAliasesInSearch : BOOLEAN,
   query : Texts, search : [Texts -> SuggestMatches]]

\* The cached records searched, as the builder leaves them: the display
\* name of a record that is not custom is the file name
SuggestCands ==
  {c \in [basename : Texts, displayName : Texts,
          aliases : SeqsUpTo(Texts, MaxCandAliases), isCustomDisplay : BOOLEAN] :
     ~c.isCustomDisplay => c.displayName = c.basename}

PlainCand ==
  [basename |-> <<"b">>, displayName |-> <<"b">>, aliases |-> <<>>,
   isCustomDisplay |-> FALSE]

\* The vaults searched: any record with few links and no further file, or
\* one plain record with up to MaxOthers further files and MaxLinks links
\* (the same text may be linked from several notes)
SuggestVaults ==
  [cand : SuggestCands, others : {0}, unresolved : SeqsUpTo(Texts, MaxFewLinks)]
  \cup [cand : {PlainCand}, others : 0..MaxOthers, unresolved : SeqsUpTo(Texts, MaxLinks)]

SuggestInput(st, v) ==
  [enableForQuickSwitcher |-> st.enableForQuickSwitcher,
   showExistingOnly |-> st.showExistingOnly,
   includeFilenameInSearch |-> st.includeFilenameInSearch,
   includeAliasesInSearch |-> st.includeAliasesInSearch,
   query |-> st.query, search |-> st.search,
   cand |-> v.cand, others |-> v.others, unresolved |-> v.unresolved]

InitSuggest ==
  /\ \E st \in SuggestSettings, v \in SuggestVaults : gIn = SuggestInput(st, v)
  /\ gOut = [link |-> NotSuggested, quick |-> NotSuggested]
  /\ reasons = NoReasons
  /\ rDoc = NoDoc
  /\ rOut = ResolveOutIdle
  /\ WorldIdle /\ LinkIdle /\ FmIdle /\ LateIdle /\ SearchIdle /\ HooksIdle /\ SurfIdle

RunLinkSuggest ==
  /\ ~gOut.link.ran
  /\ gOut' = [gOut EXCEPT !.link = [ran |-> TRUE, items |-> LinkGetSuggestions(gIn)]]
  /\ UNCHANGED <<gIn, reasons, resolveVars, searchVars, hookVars, surfVars, lateVars, worldVars, linkVars,
               fmVars>>

RunQuickSuggest ==
  /\ ~gOut.quick.ran
  /\ gOut' = [gOut EXCEPT !.quick = [ran |-> TRUE, items |-> QuickGetSuggestions(gIn)]]
  /\ UNCHANGED <<gIn, reasons, resolveVars, searchVars, hookVars, surfVars, lateVars, worldVars, linkVars,
               fmVars>>

NextSuggest == RunLinkSuggest \/ RunQuickSuggest

SpecSuggest == InitSuggest /\ [][NextSuggest]_vars

HasKind(items, kind) == \E i \in 1..Len(items) : items[i].kind = kind

\* The matcher matches every string that equals the query up to case
MatchesEqual(g) == \A t \in Texts : Lower(t) = Lower(g.query) => IsMatch(g.search[t])

\* A candidate that exactly equals the query: the record on its display
\* name, on its file name when file-name search is on, on an alias when
\* alias search is on, or an unresolved link when these are shown
ExactCandidate(g) ==
  \/ ExactFile(g)
  \/ ~g.showExistingOnly /\ \E i \in 1..Len(g.unresolved) : Lower(g.unresolved[i]) = Lower(g.query)

CreateNewOffered(items, query) ==
  \E i \in 1..Len(items) : items[i].kind = "new" /\ items[i].text = query

\* C14: the link suggester never returns a create-new item; the quick
\* switcher, for a non-empty query and a matcher that matches what equals
\* the query, returns a create-new item named after the query exactly when
\* no candidate equals the query up to case
C14_CreateNewPolicy ==
  /\ gOut.link.ran => ~HasKind(gOut.link.items, "new")
  /\ (gOut.quick.ran /\ MatchesEqual(gIn)) =>
       (CreateNewOffered(gOut.quick.items, gIn.query) <=> ~ExactCandidate(gIn))

\* The distinct unresolved link texts of the host that the matcher matches
MatchingLinks(g) ==
  {g.unresolved[i] : i \in {j \in 1..Len(g.unresolved) : IsMatch(g.search[g.unresolved[j]])}}

\* The positions of the unresolved-link candidates of a list with text t
LinkItems(items, t) == {i \in 1..Len(items) : items[i].kind = "unresolved" /\ items[i].text = t}

\* Every matching link is one candidate of its own kind, raw text, raw score
AllLinksShown(items, g) ==
  \A t \in MatchingLinks(g) :
    /\ Cardinality(LinkItems(items, t)) = 1
    /\ \A i \in LinkItems(items, t) : items[i].score = g.search[t].score

\* Every unresolved-link candidate of a list is a matching link of the host
OnlyMatchingLinks(items, g) ==
  \A i \in 1..Len(items) : items[i].kind = "unresolved" => items[i].text \in MatchingLinks(g)

UnresolvedAsClaimed(items, g) ==
  /\ OnlyMatchingLinks(items, g)
  /\ ~g.showExistingOnly => AllLinksShown(items, g)
  /\ g.showExistingOnly => ~HasKind(items, "unresolved")

\* The search of the quick switcher (performSearch) has run
QuickSearched == gOut.quick.ran /\ gIn.enableForQuickSwitcher

\* C15 as stated: with showExistingOnly off every distinct matching
\* unresolved link is in the results of either search as a candidate of
\* its own kind with its raw text and the raw score of the matcher; with
\* showExistingOnly on no unresolved-link candidate is in either result
C15_UnresolvedLinks ==
  /\ gOut.link.ran => UnresolvedAsClaimed(gOut.link.items, gIn)
  /\ QuickSearched => UnresolvedAsClaimed(gOut.quick.items, gIn)

\* All candidates of the quick switcher fit in its display limit: the
\* files, the distinct links and the create-new item
WithinLimit(g) ==
  g.others + 1 + Cardinality({g.unresolved[i] : i \in 1..Len(g.unresolved)}) + 1 <= limit

\* C15, amended: as stated for the link suggester; for the quick switcher
\* every unresolved-link candidate returned is a matching link, none is
\* returned with showExistingOnly on, and every matching link is returned
\* whenever the candidates fit in the display limit of 8
C15_UnresolvedLinksWithinLimit ==
  /\ gOut.link.ran => UnresolvedAsClaimed(gOut.link.items, gIn)
  /\ QuickSearched =>
       /\ OnlyMatchingLinks(gOut.quick.items, gIn)
       /\ gIn.showExistingOnly => ~HasKind(gOut.quick.items, "unresolved")
       /\ (~gIn.showExistingOnly /\ WithinLimit(gIn)) => AllLinksShown(gOut.quick.items, gIn)

\* Both searches have returned a link that two notes leave unresolved, once
C15_Witness ==
  /\ gOut.link.ran /\ QuickSearched /\ ~gIn.showExistingOnly
  /\ Len(gIn.unresolved) = 2 /\ gIn.unresolved[1] = gIn.unresolved[2]
  /\ MatchingLinks(gIn) # {}
  /\ HasKind(gOut.link.items, "unresolved") /\ HasKind(gOut.quick.items, "unresolved")

\* The texts the surfaces have drawn for rDoc
SurfaceTexts ==
  {rOut.surfaces.frame, rOut.surfaces.explorer, rOut.surfaces.tab, rOut.surfaces.graph,
   rOut.surfaces.dragDrop, rOut.surfaces.bookmark}

\* C16: for every document and value of the property, the text drawn by the
\* window frame, the tab, the file explorer, the graph, drag-and-drop and
\* the bookmark dialog is the displayName the cache builder resolves for
\* the document
C16_SurfacesShowBuilderName ==
  (rOut.surfaces.ran /\ rOut.build.has) => SurfaceTexts = {rOut.build.cache.displayName}

\* The alias list the contract asks for the elements e: each coerced to a
\* string and trimmed, the empty ones dropped, order and duplicates kept
NormalizedAliases(e) ==
  LET keep == {i \in 1..Len(e) : Trim(ToStr(e[i])) # <<>>}
      nth(k) == CHOOSE i \in keep : Cardinality({j \in keep : j <= i}) = k
  IN  [k \in 1..Cardinality(keep) |-> Trim(ToStr(e[nth(k)]))]

\* The builders' normalization applied again to a cached alias list
Renormalized(aliases) == MapTrimDropEmpty([i \in 1..Len(aliases) |-> StrV(aliases[i])])

AliasesAsSpecified(rec, M) ==
  (~M.none /\ (M.aliases.k = "array" \/ IsScalar(M.aliases))) =>
    /\ rec.aliases = NormalizedAliases(IF M.aliases.k = "array" THEN M.aliases.v
                                       ELSE <<M.aliases>>)
    /\ Renormalized(rec.aliases) = rec.aliases

\* C17: for every aliases value, a single scalar or an array, the cached
\* alias list is the elements coerced to string and trimmed, empty entries
\* dropped, order and duplicates kept, and normalizing it again returns it
\* unchanged
C17_AliasNormalization ==
  /\ rOut.build.has => AliasesAsSpecified(rOut.build.cache, BuildFrontmatter)
  /\ rOut.update.has => AliasesAsSpecified(rOut.update.cache, DocIndexed(rDoc))

(***************************************************************************)
(* SpecHooks: the plugin's hooks into the host.  The quick switcher        *)
(* command (QuickSwitcherService), the editor suggesters                   *)
(* (updateLinkSuggester) and the graph node prototypes (GraphViewService,  *)
(* in its synchronous and its asynchronous revision), driven by the        *)
(* start-up updates, the settings toggles, layout changes and onunload.    *)
(***************************************************************************)
MaxInstances == 2

InSeq(x, seq) == \E i \in 1..Len(seq) : seq[i] = x

\* The command the host may have registered as 'switcher:open'
HostNames == {"", "Open quick switcher"}
HostCommand(name) ==
  [ref |-> "host", id |-> "switcher:open", name |-> name, callback |-> "host"]

\* The command object the plugin installs
customCommand ==
  [ref |-> "pov", id |-> "switcher:open", name |-> "Quick Switcher", callback |-> "pov"]

\* QuickSwitcherService.overrideQuickSwitcherCommand
overrideQuickSwitcherCommand(cmd, qs) ==
  LET copy == [ref |-> "copy",
               id |-> IF cmd.id = "" THEN "switcher:open" ELSE cmd.id,
               name |-> IF cmd.name = "" THEN "Quick Switcher" ELSE cmd.name,
               callback |-> cmd.callback]
  IN  [commands |-> customCommand,
       quickSwitcher |->
         [originalSwitcherCommand |->
            IF cmd # Absent /\ qs.originalSwitcherCommand = Absent THEN copy
            ELSE qs.originalSwitcherCommand,
          isCommandOverridden |-> TRUE]]

\* QuickSwitcherService.restoreOriginalCommand: a new object from the copy
restoreOriginalCommand(cmd, qs) ==
  IF qs.originalSwitcherCommand = Absent
  THEN [commands |-> cmd, quickSwitcher |-> qs]
  ELSE [commands |-> [qs.originalSwitcherCommand EXCEPT !.ref = "restored"],
        quickSwitcher |-> [qs EXCEPT !.isCommandOverridden = FALSE]]

\* QuickSwitcherService.updateQuickSwitcher
updateQuickSwitcher(st, cmd, qs) ==
  IF st.enableForQuickSwitcher /\ ~qs.isCommandOverridden
  THEN overrideQuickSwitcherCommand(cmd, qs)
  ELSE IF ~st.enableForQuickSwitcher /\ qs.isCommandOverridden
       THEN restoreOriginalCommand(cmd, qs)
       ELSE [commands |-> cmd, quickSwitcher |-> qs]

\* The suggesters of the host: its link suggester, whose constructor name
\* holds 'LinkSuggest' or is minified, and one other
NativeSuggests(linkName) ==
  <<[kind |-> "native", id |-> 1, linkName |-> linkName],
    [kind |-> "native", id |-> 2, linkName |-> FALSE]>>
LinkTitleSuggest(id) == [kind |-> "pov", id |-> id, linkName |-> FALSE]

\* `suggests.filter(s => s !== this.suggest)`
WithoutSuggest(sugg, cur) ==
  SelectSeq(sugg, LAMBDA x : ~(x.kind = "pov" /\ x.id = cur))

\* updateLinkSuggester of the plugin: the list and this.suggest after it
updateLinkSuggester(st, sugg, ls) ==
  LET removed == IF ls.cur # 0 THEN WithoutSuggest(sugg, ls.cur) ELSE sugg
      made == ls.made + 1
      registered == Append(removed, LinkTitleSuggest(made))
      filtered == SelectSeq(registered, LAMBDA x : ~x.linkName)
  IN  IF st.enableForLinking
      THEN [suggests |-> <<LinkTitleSuggest(made)>> \o filtered,
            linkSuggest |-> [cur |-> made, made |-> made]]
      ELSE [suggests |-> removed, linkSuggest |-> [ls EXCEPT !.cur = 0]]

\* The graph views and the prototypes of their nodes
Views == {1, 2}
Protos == {1, 2}
HostProto == [getDisplayText |-> "host", pov_originalGetDisplayText |-> "none",
              pov_plugin |-> FALSE]

\* The guard of overridePrototype
PatchedAgain(g, p) == TRUE

NotYetPatched(g, p) ==
  g.protos[p].pov_originalGetDisplayText = "none" /\ ~InSeq(p, g.modifiedPrototypes)

\* overridePrototype from `firstNode` on: the first node's prototype is
\* patched once
patchPrototype(g, v) ==
  LET p == g.protoOf[v]
  IN  IF g.nodes[v] /\ NotYetPatched(g, p)
      THEN [g EXCEPT !.protos[p] =
                       [getDisplayText |-> "pov",
                        pov_originalGetDisplayText |-> g.protos[p].getDisplayText,
                        pov_plugin |-> g.revision = "sync"],
                     !.modifiedPrototypes = Append(@, p)]
      ELSE g

\* GraphViewService.overridePrototype(view); the asynchronous revision
\* retries later when the view has no node and waits for the mdx reads
overridePrototype(g, v, wait) ==
  IF g.revision = "async" /\ (~g.nodes[v] \/ wait)
  THEN [g EXCEPT !.pending = @ \cup {v}]
  ELSE patchPrototype(g, v)

\* GraphViewService.overridePrototypes
overridePrototypes(g, st, wait) ==
  IF g.revision = "sync" /\ ~st.enableForGraphView THEN g
  ELSE overridePrototype(overridePrototype(g, 1, wait[1]), 2, wait[2])

\* GraphViewService.restorePrototypes; `restored` records that it has put a
\* function back
restorePrototypes(g) ==
  [g EXCEPT
     !.protos = [p \in Protos |->
                   IF ~InSeq(p, g.modifiedPrototypes) THEN g.protos[p]
                   ELSE [getDisplayText |->
                           IF g.protos[p].pov_originalGetDisplayText # "none"
                           THEN g.protos[p].pov_originalGetDisplayText
                           ELSE g.protos[p].getDisplayText,
                         pov_originalGetDisplayText |-> "none",
                         pov_plugin |-> FALSE]],
     !.modifiedPrototypes = <<>>,
     !.restored = IF g.modifiedPrototypes # <<>> THEN 1 ELSE @]

\* GraphViewService.updateGraphView
updateGraphView(g, st, wait) ==
  IF st.enableForGraphView THEN overridePrototypes(g, st, wait) ELSE restorePrototypes(g)

\* GraphViewService.onLayoutChange: with the setting on it asks
\* app.internalPlugins for the graph plugin; the synchronous revision reads
\* it with ?. and returns when it is undefined, the asynchronous revision
\* reads a property of undefined, which throws a TypeError
onLayoutChange(g, st, wait) ==
  IF ~st.enableForGraphView THEN restorePrototypes(g)
  ELSE IF g.internalPlugins THEN overridePrototypes(g, st, wait)
  ELSE IF g.revision = "sync" THEN g
  ELSE [g EXCEPT !.threw = TRUE]

InitHooks ==
  /\ phase = "constructed"
  /\ settings \in [enableForQuickSwitcher : BOOLEAN, enableForLinking : BOOLEAN,
                   enableForGraphView : BOOLEAN]
  /\ commands \in {Absent} \cup {HostCommand(n) : n \in HostNames}
  /\ quickSwitcher = [originalSwitcherCommand |-> Absent, isCommandOverridden |-> FALSE]
  /\ \E linkName \in BOOLEAN : suggests = NativeSuggests(linkName)
  /\ linkSuggest = [cur |-> 0, made |-> 0]
  /\ \E revision \in {"sync", "async"}, protoOf \in {<<1, 1>>, <<1, 2>>},
        nodes \in [Views -> BOOLEAN], internalPlugins \in BOOLEAN :
       \* a host without app.internalPlugins has no graph plugin to draw nodes
       /\ ~internalPlugins => protoOf = <<1, 1>> /\ nodes = [v \in Views |-> FALSE]
       /\ graph = [revision |-> revision, protoOf |-> protoOf, nodes |-> nodes,
                   protos |-> [p \in Protos |-> HostProto],
                   modifiedPrototypes |-> <<>>, pending |-> {}, restored |-> 0, tick |-> FALSE,
                   internalPlugins |-> internalPlugins, threw |-> FALSE]
  /\ hostBefore = [commands |-> commands, suggests |-> suggests]
  /\ ResolveIdle /\ SearchIdle /\ SuggestIdle /\ SurfIdle /\ WorldIdle /\ LinkIdle /\ FmIdle /\ LateIdle

HooksUnchanged == UNCHANGED <<hostBefore, resolveVars, searchVars, suggestVars,
                              surfVars, lateVars, worldVars, linkVars, fmVars>>

\* The update of the quick switcher with the settings st
QuickSwitcherUpdated(st) ==
  LET r == updateQuickSwitcher(st, commands, quickSwitcher)
  IN  commands' = r.commands /\ quickSwitcher' = r.quickSwitcher

\* The update of the link suggester with the settings st
LinkSuggesterUpdated(st) ==
  LET r == updateLinkSuggester(st, suggests, linkSuggest)
  IN  /\ st.enableForLinking => linkSuggest.made < MaxInstances
      /\ suggests' = r.suggests /\ linkSuggest' = r.linkSuggest

\* onload's delayed callback: updateLinkSuggester, updateQuickSwitcher,
\* updateGraphView
LayoutReady ==
  /\ phase = "constructed"
  /\ phase' = "ready"
  /\ LinkSuggesterUpdated(settings)
  /\ QuickSwitcherUpdated(settings)
  /\ \E wait \in [Views -> BOOLEAN] : graph' = updateGraphView(graph, settings, wait)
  /\ UNCHANGED settings
  /\ HooksUnchanged

\* The toggle of "When linking notes"
ToggleLinking ==
  /\ phase # "unloaded"
  /\ settings' = [settings EXCEPT !.enableForLinking = ~@]
  /\ LinkSuggesterUpdated(settings')
  /\ UNCHANGED <<phase, commands, quickSwitcher, graph>>
  /\ HooksUnchanged

\* The toggle of the quick switcher: saveSettings(prev) updates the quick
\* switcher and then the graph view
ToggleQuickSwitcher ==
  /\ phase # "unloaded"
  /\ settings' = [settings EXCEPT !.enableForQuickSwitcher = ~@]
  /\ QuickSwitcherUpdated(settings')
  /\ \E wait \in [Views -> BOOLEAN] : graph' = updateGraphView(graph, settings', wait)
  /\ UNCHANGED <<phase, suggests, linkSuggest>>
  /\ HooksUnchanged

\* The toggle of "In graph view"
ToggleGraphView ==
  /\ phase # "unloaded"
  /\ settings' = [settings EXCEPT !.enableForGraphView = ~@]
  /\ \E wait \in [Views -> BOOLEAN] : graph' = updateGraphView(graph, settings', wait)
  /\ UNCHANGED <<phase, commands, quickSwitcher, suggests, linkSuggest>>
  /\ HooksUnchanged

\* GraphViewService.onLayoutChange
LayoutChange ==
  /\ phase # "unloaded"
  /\ \E wait \in [Views -> BOOLEAN] : graph' = onLayoutChange(graph, settings, wait)
  /\ UNCHANGED <<phase, settings, commands, quickSwitcher, suggests, linkSuggest>>
  /\ HooksUnchanged

\* The host fills the graph view v with nodes
NodesLoaded(v) ==
  /\ ~graph.nodes[v] /\ graph.internalPlugins
  /\ graph' = [graph EXCEPT !.nodes[v] = TRUE]
  /\ UNCHANGED <<phase, settings, commands, quickSwitcher, suggests, linkSuggest>>
  /\ HooksUnchanged

\* The asynchronous overridePrototype(v) resumes: its retry timer fires on
\* a view that now has nodes, or its mdx reads are done
PendingOverride(v) ==
  /\ v \in graph.pending /\ graph.nodes[v]
  /\ graph' = patchPrototype([graph EXCEPT !.pending = @ \ {v}], v)
  /\ UNCHANGED <<phase, settings, commands, quickSwitcher, suggests, linkSuggest>>
  /\ HooksUnchanged

\* The retry timer of the asynchronous overridePrototype(v) fires on a view
\* that still has no node: another timer is set, whatever the settings say
\* and however often it has fired; tick (history) turns with every firing
RetryEmpty(v) ==
  /\ v \in graph.pending /\ ~graph.nodes[v]
  /\ graph' = [graph EXCEPT !.tick = ~@]
  /\ UNCHANGED <<phase, settings, commands, quickSwitcher, suggests, linkSuggest>>
  /\ HooksUnchanged

\* onunload of the plugin: the suggester is filtered out, the command is
\* restored, the prototypes are restored
Unload ==
  /\ phase # "unloaded"
  /\ phase' = "unloaded"
  /\ suggests' = IF linkSuggest.cur # 0 THEN WithoutSuggest(suggests, linkSuggest.cur)
                 ELSE suggests
  /\ LET r == restoreOriginalCommand(commands, quickSwitcher)
     IN  commands' = r.commands /\ quickSwitcher' = r.quickSwitcher
  /\ graph' = restorePrototypes(graph)
  /\ UNCHANGED <<settings, linkSuggest>>
  /\ HooksUnchanged

NextHooks ==
  \/ LayoutReady
  \/ ToggleLinking
  \/ ToggleQuickSwitcher
  \/ ToggleGraphView
  \/ LayoutChange
  \/ \E v \in Views : NodesLoaded(v)
  \/ \E v \in Views : PendingOverride(v)
  \/ \E v \in Views : RetryEmpty(v)
  \/ Unload

SpecHooks == InitHooks /\ [][NextHooks]_vars

\* The quick switcher is off: the setting is off, or the plugin is unloaded
QuickSwitcherOff == ~settings.enableForQuickSwitcher \/ phase = "unloaded"

\* C18: whenever the setting is off, and after unload, the registry entry
\* commands['switcher:open'] is the very command that was there before the
\* first override, or absent if it was absent; and isCommandOverridden is
\* true exactly when the registry holds the plugin's command
C18_QuickSwitcherReversible ==
  /\ QuickSwitcherOff => commands = hostBefore.commands
  /\ quickSwitcher.isCommandOverridden <=> commands.ref = "pov"

\* No double wrapping: the function saved on a prototype is the host's
OriginalSaved ==
  \A p \in Protos :
    /\ graph.protos[p].pov_originalGetDisplayText \in {"none", "host"}
    /\ graph.protos[p].getDisplayText = "pov" =>
         graph.protos[p].pov_originalGetDisplayText = "host"

\* The steps in which restorePrototypes runs
RestoreStep ==
  \/ Unload
  \/ ~settings'.enableForGraphView /\
       (LayoutReady \/ ToggleQuickSwitcher \/ ToggleGraphView \/ LayoutChange)

\* Every prototype patched before the step is the host's again after it,
\* without marker, and modifiedPrototypes is empty
Restored ==
  /\ graph'.modifiedPrototypes = <<>>
  /\ \A p \in Protos : graph.protos[p] # HostProto => graph'.protos[p] = HostProto

\* C19: in any sequence of onLayoutChange, updateGraphView and onunload, the
\* function saved as pov_originalGetDisplayText on a node prototype is the
\* host's original getDisplayText, never the plugin's override; and after
\* restorePrototypes every prototype that was patched has that original as
\* getDisplayText and no pov_* marker, and modifiedPrototypes is empty
C19_GraphViewReversible == []OriginalSaved /\ [][RestoreStep => Restored]_vars

\* Two drawn views share a prototype, and restorePrototypes has put the
\* host's function back on everything that was patched
C19_Witness ==
  /\ graph.protoOf[1] = graph.protoOf[2] /\ graph.nodes[1] /\ graph.nodes[2]
  /\ graph.restored = 1
  /\ \A p \in Protos : graph.protos[p] = HostProto
  /\ graph.modifiedPrototypes = <<>>

\* The suggesters of the plugin in the host's list
LinkTitleSuggests == {suggests[i].id : i \in {j \in 1..Len(suggests) : suggests[j].kind = "pov"}}

\* C20: once the link suggester is off again, by the setting or by unload,
\* the host's list of suggesters is the one from before the feature was
\* enabled, same suggesters, same order, no LinkTitleSuggest left; while
\* the feature is on the list holds exactly one LinkTitleSuggest instance
C20_LinkSuggesterReversible ==
  /\ (~settings.enableForLinking \/ phase = "unloaded") => suggests = hostBefore.suggests
  /\ (settings.enableForLinking /\ phase = "ready") => Cardinality(LinkTitleSuggests) = 1

(***************************************************************************)
(* SpecSurfaces: the window frame and the file explorer.  The host's       *)
(* workspace.updateTitle and the explorer items' updateTitle are function  *)
(* references the services replace and put back; the handlers the services *)
(* register with plugin.registerEvent stay until the plugin unloads.       *)
(***************************************************************************)
MaxBinds == 3      \* bound copies of workspace.updateTitle, one per enable()
MaxHandlers == 8   \* handlers one run registers with the host

HostUpdateTitle == FnRef("host", 0)

\* this.updateTitle.bind(this): the override of the plugin
PovUpdateTitle == FnRef("pov", 1)

\* f.bind(thisArg): a new function that calls f
bind(f) == FnRef(f.fn, f.binds + 1)

\* this.originalUpdateTitle(), when it is set: a bound copy of the host's
\* function, which writes the file name of the active file
CallOriginalUpdateTitle(w) ==
  IF w.originalUpdateTitle # NullFn THEN [w EXCEPT !.title = "native"] ELSE w

\* WindowFrameService.updateTitle(): the original while this.enabled is
\* false; else the title of getActiveFileTitle(), the property value of an
\* active file that has one and its base name otherwise
WindowFrameUpdateTitle(w) ==
  IF ~w.enabled THEN CallOriginalUpdateTitle(w)
  ELSE [w EXCEPT !.title = IF w.titled THEN "property" ELSE "basename"]

\* workspace.updateTitle(): whatever function is installed
CallUpdateTitle(w) ==
  IF w.updateTitle.fn = "pov" THEN WindowFrameUpdateTitle(w)
  ELSE IF w.updateTitle.fn = "host" THEN [w EXCEPT !.title = "native"]
  ELSE w

\* WindowFrameService.enable(): returns when already enabled; when the host
\* has workspace.updateTitle it keeps a bound copy, installs the override
\* and calls this.updateTitle(), then sets this.enabled
WindowFrameEnable(w) ==
  IF w.enabled THEN w
  ELSE IF w.updateTitle # UndefinedFn
       THEN [WindowFrameUpdateTitle([w EXCEPT !.originalUpdateTitle = bind(w.updateTitle),
                                              !.updateTitle = PovUpdateTitle])
               EXCEPT !.enabled = TRUE]
       ELSE w

\* WindowFrameService.disable(): returns when not enabled; otherwise installs
\* what enable() kept and calls it
WindowFrameDisable(w) ==
  IF ~w.enabled THEN w
  ELSE IF w.updateTitle # UndefinedFn /\ w.originalUpdateTitle # NullFn
       THEN [CallUpdateTitle([w EXCEPT !.updateTitle = w.originalUpdateTitle])
               EXCEPT !.originalUpdateTitle = NullFn,
                      !.enabled = FALSE]
       ELSE w

\* WindowFrameService.registerEvents(): a 'file-open' and a 'changed' handler
WindowFrameRegisterEvents(w) ==
  IF ~w.enableForWindowFrame THEN w
  ELSE [w EXCEPT !.handlers = @ + 2]

\* WindowFrameService.updateWindowFrame()
updateWindowFrame(w) ==
  IF w.enableForWindowFrame
  THEN WindowFrameRegisterEvents(WindowFrameEnable(w))
  ELSE WindowFrameDisable(w)

\* WindowFrameService.onunload()
WindowFrameOnunload(w) == WindowFrameDisable(w)

MaxTimers == 2     \* delayed updateAllItems calls waiting at one time
Items == {1, 2}    \* view.fileItems of the file explorer
TitledItems == {1} \* the items whose file has the configured property

\* An explorer item as the host made it: updateTitle is the prototype's, the
\* text is the file name and no title resolution is awaiting
HostItem == [updateTitle |-> "proto", text |-> "native", awaiting |-> FALSE]

\* item.updateTitle(): under an ExplorerFileItemMutator the original runs and,
\* when the setting is on, resolveTitle() starts; otherwise the host's runs
ItemUpdateTitle(e, i) ==
  IF e.items[i].updateTitle = "pov"
  THEN [e EXCEPT !.items[i].text = "native",
                 !.items[i].awaiting = @ \/ e.enableForExplorer]
  ELSE [e EXCEPT !.items[i].text = "native"]

\* The continuation of ExplorerFileItemMutator.updateTitle after
\* await resolveTitle(item): a non-empty title is set as the item's text
SetResolvedTitle(e, i) ==
  IF i \in TitledItems
  THEN [e EXCEPT !.items[i].awaiting = FALSE, !.items[i].text = "property"]
  ELSE [e EXCEPT !.items[i].awaiting = FALSE]

\* new ExplorerFileItemMutator(item, service): overrides the item's methods
Mutate(e, i) ==
  [e EXCEPT !.items[i].updateTitle = "pov", !.modified = @ \cup {i}]

\* ExplorerFileItemMutator.destroy(): installs the bound copy of the
\* prototype's method the constructor kept
destroy(e, i) ==
  [e EXCEPT !.items[i].updateTitle = "bound", !.modified = @ \ {i}]

RECURSIVE UpdateItems(_, _)
UpdateItems(e, todo) ==
  IF todo = {} THEN e
  ELSE LET i == CHOOSE x \in todo : \A y \in todo : x <= y
           m == IF i \in e.modified THEN e ELSE Mutate(e, i)
       IN  UpdateItems(ItemUpdateTitle(m, i), todo \ {i})

\* ExplorerService.updateAllItems(): no check of the setting
updateAllItems(e) == UpdateItems(e, Items)

RECURSIVE RestoreItems(_, _)
RestoreItems(e, todo) ==
  IF todo = {} THEN e
  ELSE LET i == CHOOSE x \in todo : \A y \in todo : x <= y
           r == IF i \in e.modified THEN ItemUpdateTitle(destroy(e, i), i) ELSE e
       IN  RestoreItems(r, todo \ {i})

\* ExplorerService.restoreAllItems()
restoreAllItems(e) == [RestoreItems(e, Items) EXCEPT !.restoredAll = TRUE]

\* ExplorerService.registerEvents(): the onLayoutReady callback runs at once
\* when the layout is ready and is queued otherwise; three handlers
ExplorerRegisterEvents(e, ready) ==
  IF ~e.enableForExplorer THEN e
  ELSE LET c == IF ready THEN updateAllItems(e) ELSE [e EXCEPT !.queued = TRUE]
       IN  [c EXCEPT !.handlers = @ + 3]

\* ExplorerService.updateExplorer()
updateExplorer(e, ready) ==
  IF e.enableForExplorer
  THEN [ExplorerRegisterEvents(e, ready) EXCEPT !.timers = @ + 1,
                                                !.refreshed = TRUE,
                                                !.restoredAll = FALSE]
  ELSE [restoreAllItems(e) EXCEPT !.refreshed = FALSE]

\* ExplorerService.onunload()
ExplorerOnunload(e) == [restoreAllItems(e) EXCEPT !.refreshed = FALSE]

InitSurfaces ==
  /\ surfPhase = "constructed"
  /\ \E on \in BOOLEAN, fn \in {HostUpdateTitle, UndefinedFn}, titled \in BOOLEAN :
       frame = [enableForWindowFrame |-> on, updateTitle |-> fn,
                originalUpdateTitle |-> NullFn, enabled |-> FALSE,
                handlers |-> 0, first |-> fn, title |-> "native", titled |-> titled]
  /\ \E on \in BOOLEAN :
       explorer = [enableForExplorer |-> on, items |-> [i \in Items |-> HostItem],
                   modified |-> {}, timers |-> 0, queued |-> FALSE,
                   handlers |-> 0, refreshed |-> FALSE, restoredAll |-> FALSE]
  /\ render = NoRender
  /\ ResolveIdle /\ SearchIdle /\ SuggestIdle /\ HooksIdle
  /\ WorldIdle /\ LinkIdle /\ FmIdle /\ LateIdle

SurfacesUnchanged ==
  UNCHANGED <<render, resolveVars, searchVars, suggestVars, hookVars, lateVars, worldVars, linkVars,
              fmVars>>

\* What one run can hold: bound copies, handlers and timers
WithinSurfaceBounds(w, e) ==
  /\ w.updateTitle.binds <= MaxBinds
  /\ w.originalUpdateTitle.binds <= MaxBinds
  /\ w.handlers <= MaxHandlers
  /\ e.handlers <= MaxHandlers
  /\ e.timers <= MaxTimers

\* onload: explorerService.registerEvents(); windowFrameService.registerEvents()
SurfacesOnload ==
  /\ surfPhase = "constructed"
  /\ surfPhase' = "loading"
  /\ explorer' = ExplorerRegisterEvents(explorer, FALSE)
  /\ frame' = WindowFrameRegisterEvents(frame)
  /\ SurfacesUnchanged

\* The layout is ready: the queued callback of ExplorerService runs, then
\* the callback of onload calls updateExplorer() and updateWindowFrame()
SurfacesLayoutReady ==
  /\ surfPhase = "loading"
  /\ surfPhase' = "ready"
  /\ LET q == IF explorer.queued
              THEN [updateAllItems(explorer) EXCEPT !.queued = FALSE]
              ELSE explorer
     IN  explorer' = updateExplorer(q, TRUE)
  /\ frame' = updateWindowFrame(frame)
  /\ SurfacesUnchanged

\* metadataCache 'changed': the handlers ExplorerService and
\* WindowFrameService registered, then the handler of onload that refreshes
\* each surface whose setting is on
SurfacesMetadataChanged ==
  /\ surfPhase = "ready"
  /\ LET h == IF explorer.handlers > 0 /\ explorer.enableForExplorer
              THEN updateAllItems(explorer) ELSE explorer
         e == IF h.enableForExplorer THEN updateExplorer(h, TRUE) ELSE h
         t == IF frame.handlers > 0 /\ frame.enabled THEN WindowFrameUpdateTitle(frame)
              ELSE frame
         w == IF t.enableForWindowFrame THEN updateWindowFrame(t) ELSE t
     IN  /\ WithinSurfaceBounds(w, e)
         /\ explorer' = e
         /\ frame' = w
  /\ UNCHANGED surfPhase
  /\ SurfacesUnchanged

\* The user opens another file, with or without the property: the host calls
\* workspace.updateTitle(), then the 'file-open' handler of
\* WindowFrameService runs
SurfacesFileOpen(titled) ==
  /\ surfPhase = "ready"
  /\ LET h == CallUpdateTitle([frame EXCEPT !.titled = titled])
     IN  frame' = IF h.handlers > 0 /\ h.enabled THEN WindowFrameUpdateTitle(h) ELSE h
  /\ UNCHANGED <<surfPhase, explorer>>
  /\ SurfacesUnchanged

\* The settings tab: 'In window frame title'
ToggleWindowFrame ==
  /\ surfPhase = "ready"
  /\ LET w == updateWindowFrame([frame EXCEPT !.enableForWindowFrame = ~@])
     IN  /\ WithinSurfaceBounds(w, explorer)
         /\ frame' = w
  /\ UNCHANGED <<surfPhase, explorer>>
  /\ SurfacesUnchanged

\* The settings tab: 'In file explorer'
ToggleExplorer ==
  /\ surfPhase = "ready"
  /\ LET e == updateExplorer([explorer EXCEPT !.enableForExplorer = ~@], TRUE)
     IN  /\ WithinSurfaceBounds(frame, e)
         /\ explorer' = e
  /\ UNCHANGED <<surfPhase, frame>>
  /\ SurfacesUnchanged

\* setTimeout(() => this.updateAllItems(), 100) of updateExplorer fires
UpdateAllItemsTimer ==
  /\ surfPhase \in {"ready", "unloaded"}
  /\ explorer.timers > 0
  /\ explorer' = updateAllItems([explorer EXCEPT !.timers = @ - 1])
  /\ UNCHANGED <<surfPhase, frame>>
  /\ SurfacesUnchanged

\* await this.service.resolveTitle(this.item) of a mutator resumes
TitleResolved(i) ==
  /\ explorer.items[i].awaiting
  /\ explorer' = SetResolvedTitle(explorer, i)
  /\ UNCHANGED <<surfPhase, frame>>
  /\ SurfacesUnchanged

\* The host calls item.updateTitle() when it renders the item
HostRendersItem(i) ==
  /\ surfPhase \in {"ready", "unloaded"}
  /\ explorer' = ItemUpdateTitle(explorer, i)
  /\ explorer' # explorer
  /\ UNCHANGED <<surfPhase, frame>>
  /\ SurfacesUnchanged

\* onunload: explorerService.onunload(); windowFrameService.onunload(); the
\* host detaches what plugin.registerEvent registered
SurfacesUnload ==
  /\ surfPhase \in {"loading", "ready"}
  /\ surfPhase' = "unloaded"
  /\ explorer' = [ExplorerOnunload(explorer) EXCEPT !.handlers = 0, !.queued = FALSE]
  /\ frame' = [WindowFrameOnunload(frame) EXCEPT !.handlers = 0]
  /\ SurfacesUnchanged

NextSurfaces ==
  \/ SurfacesOnload
  \/ SurfacesLayoutReady
  \/ SurfacesMetadataChanged
  \/ \E titled \in BOOLEAN : SurfacesFileOpen(titled)
  \/ ToggleWindowFrame
  \/ ToggleExplorer
  \/ UpdateAllItemsTimer
  \/ \E i \in Items : TitleResolved(i)
  \/ \E i \in Items : HostRendersItem(i)
  \/ SurfacesUnload

SpecSurfaces == InitSurfaces /\ [][NextSurfaces]_vars

\* C21: after disable() the host method workspace.updateTitle is the very
\* function reference it held before the first enable(), enabled is false and
\* originalUpdateTitle is null; enable() never keeps the plugin's own
\* override as the original.
C21_WindowFrameReversible ==
  /\ frame.originalUpdateTitle.fn # "pov"
  /\ ~frame.enabled =>
       /\ frame.updateTitle = frame.first
       /\ frame.originalUpdateTitle = NullFn

\* C22: once updateExplorer() ran with the setting off, or onunload ran, no
\* item carries the override and every item shows the host's native title,
\* in every later state.
C22_ExplorerReversible ==
  explorer.restoredAll =>
    \A i \in DOMAIN explorer.items :
      /\ explorer.items[i].updateTitle # "pov"
      /\ explorer.items[i].text = "native"

\* A refresh of a surface that is already enabled
RedundantRefresh ==
  \/ /\ frame.enableForWindowFrame /\ frame.enabled
     /\ frame'.enableForWindowFrame /\ frame' # frame
  \/ /\ explorer.enableForExplorer /\ explorer.refreshed
     /\ explorer'.enableForExplorer /\ explorer'.timers > explorer.timers

\* C23: calling updateWindowFrame() or updateExplorer() again while the
\* setting stays on leaves the same overrides installed and the same number
\* of host event handlers registered as calling it once.
C23_RefreshIdempotent ==
  [][RedundantRefresh =>
       /\ frame'.handlers = frame.handlers
       /\ frame'.updateTitle = frame.updateTitle
       /\ explorer'.handlers = explorer.handlers
       /\ explorer'.modified = explorer.modified]_vars

(***************************************************************************)
(* The retries of the graph view: SpecHooks with the timers and the        *)
(* awaited reads of overridePrototype scheduled fairly, as the event loop  *)
(* runs every timer that is due and resumes every settled await.           *)
(***************************************************************************)
SpecHooksFair ==
  /\ SpecHooks
  /\ \A v \in Views : WF_vars(RetryEmpty(v)) /\ WF_vars(PendingOverride(v))

\* A retry of overridePrototype is waiting on a view without nodes
RetryArmed == \E v \in Views : v \in graph.pending /\ ~graph.nodes[v]

\* C24: overridePrototype on a view with zero nodes retries a capped number
\* of times and then gives up: from some point on no retry is waiting on a
\* view that stays empty.
C24_RetryGivesUp == <>[]~RetryArmed

\* C25: once the graph feature is off or the plugin is unloaded, no node
\* prototype carries the getDisplayText override, in every later state.
C25_StaysUnpatched ==
  (phase = "unloaded" \/ (phase = "ready" /\ ~settings.enableForGraphView)) =>
    \A p \in Protos : graph.protos[p].getDisplayText # "pov"

\* C26: when the hook a synchronizer expects is absent, enabling it throws
\* nothing and leaves the host as it was: onLayoutChange does not throw
\* without app.internalPlugins, and a command registry without
\* 'switcher:open' stays without it.
C26_MissingHookNoOp ==
  /\ ~graph.threw
  /\ hostBefore.commands = Absent => commands = Absent

(***************************************************************************)
(* SpecRender: one markdown tab and the window title, with the tab, the    *)
(* window frame and MDX support enabled.  The property value of a document *)
(* after its n-th metadata change is written <<document, n>>; -1 stands    *)
(* for the file name.  A render of an .md file reads the metadata cache    *)
(* and resumes in a microtask, before any other event; a render of an      *)
(* .mdx file awaits app.vault.read and resumes when the host delivers it.  *)
(***************************************************************************)
MaxEvents == 2   \* metadata changes of one document
RDocs == {"m.md", "x.mdx"}
IsMdx(d) == d = "x.mdx"
Title(d, n) == <<d, n>>

\* getFrontmatter of an .mdx file started for the surface: the read is not
\* yet served (ver = -1)
StartRead(r, surface) ==
  [r EXCEPT !.reads = @ \cup {[surface |-> surface, doc |-> r.shown, ver |-> -1]}]

\* TabService.renameTabs() for the leaf: .md sets the tab title at once,
\* .mdx starts a read
renameTabs(r) ==
  IF IsMdx(r.shown) THEN StartRead(r, "tab")
  ELSE [r EXCEPT !.tab = Title(r.shown, r.version[r.shown])]

\* WindowFrameService.updateTitle() while enabled: getActiveFileTitle()
\* gives the property of an .md file, and the file name of an .mdx file
\* after starting a read
FrameUpdateTitle(r) ==
  IF IsMdx(r.shown) THEN [StartRead(r, "window") EXCEPT !.window = Title(r.shown, -1)]
  ELSE [r EXCEPT !.window = Title(r.shown, r.version[r.shown])]

\* The continuation of a render after await getFrontmatter: the title is set
\* from the frontmatter that was read, for the file the render started with
FinishRender(r, rd) ==
  IF rd.surface = "tab"
  THEN [r EXCEPT !.reads = @ \ {rd}, !.tab = Title(rd.doc, rd.ver)]
  ELSE [r EXCEPT !.reads = @ \ {rd}, !.window = Title(rd.doc, rd.ver)]

InitRender ==
  /\ \E d \in RDocs :
       render = FrameUpdateTitle(renameTabs(
                  [shown |-> d, version |-> [x \in RDocs |-> 0],
                   tab |-> <<>>, window |-> <<>>, reads |-> {}]))
  /\ surfPhase = "unloaded" /\ frame = NoFrame /\ explorer = NoExplorer
  /\ ResolveIdle /\ SearchIdle /\ SuggestIdle /\ HooksIdle
  /\ WorldIdle /\ LinkIdle /\ FmIdle /\ LateIdle

RenderUnchanged ==
  UNCHANGED <<surfPhase, frame, explorer, resolveVars, searchVars, suggestVars, hookVars,
              lateVars, worldVars, linkVars, fmVars>>

\* A metadata change of document d: the 'changed' handlers of TabService
\* and WindowFrameService render what is shown
RenderMetadataChanged(d) ==
  /\ render.version[d] < MaxEvents
  /\ render' = FrameUpdateTitle(renameTabs([render EXCEPT !.version[d] = @ + 1]))
  /\ RenderUnchanged

\* The leaf opens document d: the 'file-open' handlers render it
RenderFileOpen(d) ==
  /\ d # render.shown
  /\ render' = FrameUpdateTitle(renameTabs([render EXCEPT !.shown = d]))
  /\ RenderUnchanged

\* The host serves app.vault.read of a render with the content of that time
VaultRead(rd) ==
  /\ rd \in render.reads /\ rd.ver = -1
  /\ render' = [render EXCEPT
                  !.reads = (@ \ {rd}) \cup {[rd EXCEPT !.ver = render.version[rd.doc]]}]
  /\ RenderUnchanged

\* A served read is delivered and the render resumes
RenderResumes(rd) ==
  /\ rd \in render.reads /\ rd.ver # -1
  /\ render' = FinishRender(render, rd)
  /\ RenderUnchanged

RenderReads ==
  [surface : {"tab", "window"}, doc : {d \in RDocs : IsMdx(d)}, ver : -1 .. MaxEvents]

NextRender ==
  \/ \E d \in RDocs : RenderMetadataChanged(d)
  \/ \E d \in RDocs : RenderFileOpen(d)
  \/ \E rd \in RenderReads : VaultRead(rd)
  \/ \E rd \in RenderReads : RenderResumes(rd)

SpecRender == InitRender /\ [][NextRender]_vars

\* C27: after the renders that the metadata changes of the shown document
\* started have all completed, the tab and the window title show the name
\* resolved from its latest metadata, whatever the order the reads complete
\* in, and never the name of a document that is not the one shown.
C27_RenderOrder ==
  render.reads = {} =>
    /\ render.tab = Title(render.shown, render.version[render.shown])
    /\ render.window = Title(render.shown, render.version[render.shown])

(***************************************************************************)
(* The frontmatter accessor under Spec: errors and the three-valued        *)
(* synchronous lookup.                                                     *)
(***************************************************************************)
\* Every read the host could not serve has resolved to null
FailedReadsAbsent == \A r \in reads : r.got /\ r.failed => r.val = NoFm

\* A pending entry is there only while its read is in flight
PendingWhileReading ==
  \A key \in Paths : fmPending[key] # 0 => \E r \in reads : r.id = fmPending[key] /\ r.key = key

\* A file type that is not supported under the settings resolves to null,
\* whatever the index and the content hold
UnsupportedAbsent ==
  \A indexed \in FmVals, content \in FmVals, mdx \in BOOLEAN :
    /\ getFrontmatterResult("mdx", FALSE, indexed, content) = NoFm
    /\ getFrontmatterResult("txt", mdx, indexed, content) = NoFm

CompletedRead(key) ==
  \E r \in reads : r.key = key /\ r.got /\ r \notin reads' /\ fmCache'[key] = Known(r.val)

\* A vault event of the file at key is handled in this step
Invalidated(key) == \E f \in Files : files' # files /\ files'[f].path = key /\ Handled(f)

\* getSync(key) is Unknown exactly when no read of key has completed since
\* key was last invalidated: it becomes known only by a completed read, to
\* what that read found, and unknown only, and always, by an invalidation
ThreeValued ==
  \A key \in Paths :
    /\ ~getSync(key).known /\ fmCache'[key].known => CompletedRead(key)
    /\ getSync(key).known /\ ~fmCache'[key].known => Invalidated(key)
    /\ getSync(key).known /\ fmCache'[key].known /\ fmCache'[key] # fmCache[key]
         => CompletedRead(key)
    /\ Invalidated(key) => ~fmCache'[key].known

\* get() of a key whose lookup is Absent or present starts no read, also
\* from the render callback of a graph node
NoReadWhenKnown ==
  \A f \in Files :
    getSync(files[f].path).known /\
      (Get(f) \/ \E revision \in {"sync", "async"} : NodeRender(f, revision))
    => UNCHANGED <<reads, fmPending, fmCache>>

\* C29: getSync never starts a read and is three-valued: Unknown exactly
\* when no read of the key completed since its last invalidation, Absent or
\* the metadata as the completed read found; get() of a key that is Absent
\* or present performs no new read, also from the graph-node callback.
C29_ThreeValuedLookup == [][ThreeValued /\ NoReadWhenKnown]_vars

\* A key is Absent by a completed read while its file is still in the vault
C29_Witness ==
  \E key \in Paths :
    getSync(key) = Known(NoFm) /\ \E f \in Files : files[f].path = key /\ files[f].alive

(***************************************************************************)
(* SpecReasons: the matchReasons map of the link suggester, which lives as *)
(* long as the plugin has it registered, and of one quick switcher modal,  *)
(* over a sequence of queries.  A name matches a query when it is the      *)
(* query; the empty query is <<>>.                                         *)
(***************************************************************************)
RFiles == {"a.md", "b.md"}
RBase(p) == IF p = "a.md" THEN <<"a">> ELSE <<"b">>
Queries == Names \cup {<<>>}

\* The function of prepareFuzzySearch(query)
SearchFor(query) == [n \in Names |-> IF n = query THEN Match(0) ELSE NullMatch]

\* No entry of the map, and the entry set for a searched record
NoReason ==
  [set |-> FALSE, matchedInTitle |-> FALSE, matchedInFilename |-> FALSE,
   matchedInAlias |-> FALSE]
Reason(r) ==
  [set |-> TRUE, matchedInTitle |-> r.matchedInTitle,
   matchedInFilename |-> r.matchedInFilename, matchedInAlias |-> r.matchedInAlias]

\* The record of path p with the settings and the matcher of the query
ReasonCandidate(rs, p, query) ==
  [basename |-> RBase(p), displayName |-> rs.records[p].displayName,
   aliases |-> rs.records[p].aliases, isCustomDisplay |-> rs.records[p].isCustomDisplay,
   includeFilenameInSearch |-> rs.settings.includeFilenameInSearch,
   includeAliasesInSearch |-> rs.settings.includeAliasesInSearch,
   search |-> SearchFor(query)]

\* matchReasons.clear() and the loop of a performSearch over the records:
\* an entry is set for every record that is added to the results
SearchedReasons(rs, query, performSearch(_)) ==
  [p \in RFiles |->
     LET r == performSearch(ReasonCandidate(rs, p, query))
     IN  IF r.added THEN Reason(r) ELSE NoReason]

\* LinkTitleSuggest.getSuggestions -> performSearch: the empty query returns
\* every record before the map is cleared
LinkReasons(rs, query) ==
  IF query = <<>> THEN rs.link.map
  ELSE SearchedReasons(rs, query, LinkPerformSearch)

\* QuickSwitchModal.getSuggestions: the empty query lists the recent files
\* and clears the map; with the setting off a search by file name leaves
\* the map alone; otherwise performSearch clears and fills it
QuickReasons(rs, query) ==
  IF query = <<>> THEN [p \in RFiles |-> NoReason]
  ELSE IF ~rs.settings.enableForQuickSwitcher THEN rs.quick.map
  ELSE SearchedReasons(rs, query, QuickPerformSearch)

InitReasons ==
  /\ \E displayName \in [RFiles -> Names], aliases \in [RFiles -> SeqsUpTo({<<"c">>}, 1)],
        st \in [includeFilenameInSearch : BOOLEAN, includeAliasesInSearch : BOOLEAN,
                enableForQuickSwitcher : BOOLEAN] :
       reasons =
         [records |-> [p \in RFiles |->
                        [displayName |-> displayName[p], aliases |-> aliases[p],
                         isCustomDisplay |-> displayName[p] # RBase(p)]],
          settings |-> st,
          link |-> [ran |-> FALSE, query |-> <<>>, map |-> [p \in RFiles |-> NoReason]],
          quick |-> [ran |-> FALSE, query |-> <<>>, map |-> [p \in RFiles |-> NoReason]]]
  /\ gIn = [query |-> <<>>]
  /\ gOut = [link |-> NotSuggested, quick |-> NotSuggested]
  /\ rDoc = NoDoc
  /\ rOut = ResolveOutIdle
  /\ WorldIdle /\ LinkIdle /\ FmIdle /\ LateIdle /\ SearchIdle /\ HooksIdle /\ SurfIdle

ReasonsUnchanged ==
  UNCHANGED <<gIn, gOut, resolveVars, searchVars, hookVars, surfVars, lateVars, worldVars, linkVars,
              fmVars>>

\* The editor asks the link suggester for the suggestions of a query
LinkQuery(query) ==
  /\ reasons' = [reasons EXCEPT !.link = [ran |-> TRUE, query |-> query,
                                          map |-> LinkReasons(reasons, query)]]
  /\ reasons' # reasons
  /\ ReasonsUnchanged

\* The modal asks for the suggestions of a query
QuickQuery(query) ==
  /\ reasons' = [reasons EXCEPT !.quick = [ran |-> TRUE, query |-> query,
                                           map |-> QuickReasons(reasons, query)]]
  /\ reasons' # reasons
  /\ ReasonsUnchanged

NextReasons ==
  \/ \E query \in Queries : LinkQuery(query)
  \/ \E query \in Queries : QuickQuery(query)

SpecReasons == InitReasons /\ [][NextReasons]_vars

\* The entries a map has when it holds the reasons of the query alone
ReasonsOfQuery(query, performSearch(_)) ==
  IF query = <<>> THEN [p \in RFiles |-> NoReason]
  ELSE SearchedReasons(reasons, query, performSearch)

\* C30: after getSuggestions returns, each matchReasons map has entries
\* only for the files matched by the query it has just handled, the empty
\* query included, so rendering reads no reason of an earlier query.
C30_ReasonsPerQuery ==
  /\ reasons.link.ran =>
       reasons.link.map = ReasonsOfQuery(reasons.link.query, LinkPerformSearch)
  /\ reasons.quick.ran /\ reasons.settings.enableForQuickSwitcher =>
       reasons.quick.map = ReasonsOfQuery(reasons.quick.query, QuickPerformSearch)
  /\ reasons.quick.ran /\ ~reasons.settings.enableForQuickSwitcher =>
       reasons.quick.map = [p \in RFiles |-> NoReason]

(***************************************************************************)
(* SpecConfig: the persisted data of the plugin, loadSettings and the      *)
(* property key field of the settings tab.                                 *)
(***************************************************************************)

MaxKeyLen == 4   \* characters of a persisted or typed property key

KeyStrings == StringsUpTo(MaxKeyLen)

\* DEFAULT_SETTINGS.propertyKey
DefaultKey == <<"t", "i", "t", "l", "e">>

\* What loadData() can resolve to: null when nothing was saved (no keys), or
\* the saved object with the keys it has; a key it lacks reads <<>> or FALSE
SavedData ==
  {d \in [keys : SUBSET {"propertyKey", "enableForLinking"}, propertyKey : KeyStrings,
          enableForLinking : BOOLEAN] :
     /\ "propertyKey" \notin d.keys => d.propertyKey = <<>>
     /\ "enableForLinking" \notin d.keys => ~d.enableForLinking}

\* The object saveData(settings) persists
Saved(st) ==
  [keys |-> {"propertyKey", "enableForLinking"}, propertyKey |-> st.propertyKey,
   enableForLinking |-> st.enableForLinking]

\* Object.assign({}, DEFAULT_SETTINGS, loadedData ?? {}): each key the loaded
\* object has replaces the default, whatever its value
AssignDefaults(data) ==
  [propertyKey |-> IF "propertyKey" \in data.keys THEN data.propertyKey ELSE DefaultKey,
   enableForLinking |-> IF "enableForLinking" \in data.keys THEN data.enableForLinking
                        ELSE TRUE]

\* value.trim() || 'title'
KeyOfInput(value) == IF Trim(value) = <<>> THEN DefaultKey ELSE Trim(value)

InitConfig ==
  /\ \E data \in SavedData : config = [data |-> data, settings |-> <<>>, loaded |-> FALSE]
  /\ ResolveIdle /\ SearchIdle /\ SuggestIdle /\ HooksIdle /\ SurfIdle
  /\ WorldIdle /\ LinkIdle /\ FmIdle
  /\ backlinks = NoBacklinks /\ drop = NoDrop /\ bookmark = NoBookmark

ConfigUnchanged ==
  UNCHANGED <<backlinks, drop, bookmark, resolveVars, searchVars, suggestVars, hookVars, surfVars, worldVars,
              linkVars, fmVars>>

\* onload() awaits loadSettings()
LoadSettings ==
  /\ ~config.loaded
  /\ config' = [config EXCEPT !.settings = AssignDefaults(config.data), !.loaded = TRUE]
  /\ ConfigUnchanged

\* The user types value into the property key field: onChange stores the
\* trimmed value or 'title' and saves the settings
EditPropertyKey(value) ==
  /\ config.loaded
  /\ LET st == [config.settings EXCEPT !.propertyKey = KeyOfInput(value)]
     IN config' = [config EXCEPT !.settings = st, !.data = Saved(st)]
  /\ ConfigUnchanged

\* The user flips 'When linking notes': onChange stores the value and saves
ToggleLinkingSetting ==
  /\ config.loaded
  /\ LET st == [config.settings EXCEPT !.enableForLinking = ~@]
     IN config' = [config EXCEPT !.settings = st, !.data = Saved(st)]
  /\ ConfigUnchanged

\* The plugin is unloaded; the host loads it again from the saved data
ConfigUnload ==
  /\ config.loaded
  /\ config' = [config EXCEPT !.settings = <<>>, !.loaded = FALSE]
  /\ ConfigUnchanged

NextConfig ==
  \/ LoadSettings
  \/ \E value \in KeyStrings : EditPropertyKey(value)
  \/ ToggleLinkingSetting
  \/ ConfigUnload

SpecConfig == InitConfig /\ [][NextConfig]_vars

\* C31: whenever the settings are loaded, settings.propertyKey is non-empty
\* after trimming, whatever the persisted data was and whatever was typed
C31_PropertyKeyNonEmpty ==
  config.loaded => Trim(config.settings.propertyKey) # <<>>

(***************************************************************************)
(* SpecBacklinks: BacklinkService on the elements of one backlink          *)
(* container, its MutationObserver and the timers of the debounce.  All    *)
(* elements name one document; enableForBacklinks stays on.                *)
(***************************************************************************)

MaxHostRenders == 2   \* elements the host draws again after the first pass
MaxTimerIds == 3      \* timer ids the host hands out

DebounceMs == 10      \* the delay of the observer's setTimeout

Elems == {1, 2}
TimerIds == 1..MaxTimerIds

\* An element whose only child is a text node, or one with a child element
\* (an icon, no text) followed by a text node
Shapes == {"text", "mixed"}

BDocs == [base : {<<"a">>}, title : {<<>>, <<"a">>, <<"b", "a">>, <<"b">>}]

\* file.name of a markdown file
FileNameOf(base) == base \o <<".", "m", "d">>

\* String.prototype.endsWith
endsWith(s, suffix) ==
  /\ Len(suffix) <= Len(s)
  /\ SubSeq(s, Len(s) - Len(suffix) + 1, Len(s)) = suffix

\* getDisplayName(file): the trimmed property value, <<>> for null
BacklinkDisplayName(doc) == Trim(doc.title)

\* The element as the host draws it: a new object showing the base name
HostElement(doc, shape) == [shape |-> shape, text |-> doc.base, processed |-> FALSE]

\* A mutation record, queued only while the observer is connected
Queue(b, type, e) ==
  IF b.observer THEN [b EXCEPT !.records = @ \cup {[type |-> type, el |-> e]}] ELSE b

\* updateBacklinkContainer: every element not yet processed in this cycle
\* goes to updateElementWithFile, which first awaits getDisplayName
updateBacklinkContainer(b) ==
  [b EXCEPT !.jobs = @ \cup {[el |-> e, kind |-> "update"] : e \in {x \in Elems : ~b.els[x].processed}}]

\* startObserving: nothing when an observer exists; else a new observer with
\* an updateTimeout of null.  overrideBacklinkElements changes no text: the
\* prototype of an element has no own textContent descriptor
startObserving(b) ==
  IF b.observer THEN b ELSE [b EXCEPT !.observer = TRUE, !.updateTimeout = 0]

\* updateBacklinks() with the setting on
updateBacklinks(b) == startObserving(updateBacklinkContainer(b))

\* updateTextInElement(el): a single text node child is replaced through
\* el.textContent (a childList record adding a text node); otherwise the
\* first text node gets the name (a characterData record)
updateTextInElement(b, e, name) ==
  IF b.els[e].shape = "text"
  THEN Queue([b EXCEPT !.els[e].text = name], "childList", e)
  ELSE Queue([b EXCEPT !.els[e].text = name], "characterData", e)

\* updateElementWithFile after its await
updateElementWithFile(b, e) ==
  LET displayName == BacklinkDisplayName(b.doc)
      currentText == Trim(b.els[e].text)
      basename == b.doc.base
      marked == [b EXCEPT !.els[e].processed = TRUE]
  IN IF displayName = <<>> THEN b
     ELSE IF \/ currentText = basename
             \/ currentText = FileNameOf(basename)
             \/ endsWith(currentText, basename)
          THEN updateTextInElement(marked, e, displayName)
          ELSE marked

\* The observer's update of a new element after its await: el.textContent
\* replaces every child with one text node
UpdateNewElement(b, e) ==
  LET displayName == BacklinkDisplayName(b.doc)
      currentText == Trim(b.els[e].text)
  IN IF displayName # <<>> /\ currentText \in {b.doc.base, FileNameOf(b.doc.base)}
     THEN Queue([b EXCEPT !.els[e] = [shape |-> "text", text |-> displayName,
                                     processed |-> TRUE]], "childList", e)
     ELSE b

\* A timer id the host has not handed to a pending timer
FreshTimer(timers) == CHOOSE i \in TimerIds : \A t \in timers : t.id # i

Least(a, b) == IF a <= b THEN a ELSE b

\* The observer's debounce that keeps the timer it replaces
debounceNoClear(b) ==
  LET id == FreshTimer(b.timers)
  IN [b EXCEPT !.timers = @ \cup {[id |-> id, left |-> DebounceMs]},
               !.updateTimeout = id,
               !.burst = IF b.timers # {} THEN Least(@ + 1, 2) ELSE 1,
               !.elapsed = 0, !.calls = 0]

\* The observer's debounce: clearTimeout(updateTimeout) when it is set, then
\* a new timer of 10 ms.  burst counts the callbacks the pending timer has
\* seen (history), elapsed the time since the last of them, calls the
\* updateBacklinks() calls a timer made since
debounce(b) ==
  LET kept == {t \in b.timers : t.id # b.updateTimeout}
      id == FreshTimer(kept)
  IN [b EXCEPT !.timers = kept \cup {[id |-> id, left |-> DebounceMs]},
               !.updateTimeout = id,
               !.burst = IF b.timers # {} THEN Least(@ + 1, 2) ELSE 1,
               !.elapsed = 0, !.calls = 0]

\* The MutationObserver callback on the records queued so far
ObserverCallback(b) ==
  LET shouldUpdate == \E r \in b.records : r.type \in {"element", "characterData"}
      newElements == {r.el : r \in {x \in b.records : x.type = "element"}}
      taken == [b EXCEPT !.records = {},
                         !.jobs = @ \cup {[el |-> e, kind |-> "new"] : e \in newElements}]
  IN IF shouldUpdate
     THEN debounce([taken EXCEPT !.els = [e \in Elems |-> [@[e] EXCEPT !.processed = FALSE]]])
     ELSE taken

InitBacklinks ==
  /\ \E doc \in BDocs, shapes \in [Elems -> Shapes] :
       backlinks = [NoBacklinks EXCEPT !.doc = doc,
                                       !.els = [e \in Elems |-> HostElement(doc, shapes[e])]]
  /\ config = NoConfig /\ drop = NoDrop /\ bookmark = NoBookmark
  /\ ResolveIdle /\ SearchIdle /\ SuggestIdle /\ HooksIdle /\ SurfIdle
  /\ WorldIdle /\ LinkIdle /\ FmIdle

BacklinksUnchanged ==
  UNCHANGED <<config, drop, bookmark, resolveVars, searchVars, suggestVars, hookVars, surfVars, worldVars,
              linkVars, fmVars>>

\* The layout is ready: the plugin calls updateBacklinks()
BacklinksLayoutReady ==
  /\ ~backlinks.observer
  /\ backlinks' = updateBacklinks(backlinks)
  /\ BacklinksUnchanged

\* getDisplayName resolves for one element
BacklinkResumes(job) ==
  /\ job \in backlinks.jobs
  /\ LET b == [backlinks EXCEPT !.jobs = @ \ {job}]
     IN backlinks' = IF job.kind = "update" THEN updateElementWithFile(b, job.el)
                     ELSE UpdateNewElement(b, job.el)
  /\ BacklinksUnchanged

\* The host delivers the queued records to the observer
BacklinkMutations ==
  /\ backlinks.observer /\ backlinks.records # {}
  /\ backlinks' = ObserverCallback(backlinks)
  /\ BacklinksUnchanged

\* One millisecond passes with no timer due
BacklinkTick ==
  /\ backlinks.timers # {}
  /\ \A t \in backlinks.timers : t.left > 0
  /\ backlinks' = [backlinks EXCEPT !.timers = {[t EXCEPT !.left = @ - 1] : t \in @},
                                    !.elapsed = Least(@ + 1, DebounceMs)]
  /\ BacklinksUnchanged

\* A timer of the debounce is due: updateBacklinks(), then updateTimeout = null
BacklinkTimer(t) ==
  /\ t \in backlinks.timers /\ t.left = 0
  /\ backlinks' = [updateBacklinks([backlinks EXCEPT !.timers = @ \ {t}])
                     EXCEPT !.updateTimeout = 0, !.calls = Least(@ + 1, 2)]
  /\ BacklinksUnchanged

\* The host draws element e again: a new element in place of the old one,
\* whose pending updates no longer show
HostRender(e, shape) ==
  /\ backlinks.observer
  /\ backlinks.hostRenders < MaxHostRenders
  /\ backlinks' =
       Queue([backlinks EXCEPT !.els[e] = HostElement(backlinks.doc, shape),
                               !.jobs = {j \in @ : j.el # e},
                               !.hostRenders = @ + 1], "element", e)
  /\ BacklinksUnchanged

NextBacklinks ==
  \/ BacklinksLayoutReady
  \/ \E job \in backlinks.jobs : BacklinkResumes(job)
  \/ BacklinkMutations
  \/ BacklinkTick
  \/ \E t \in backlinks.timers : BacklinkTimer(t)
  \/ \E e \in Elems, shape \in Shapes : HostRender(e, shape)

SpecBacklinks == InitBacklinks /\ [][NextBacklinks]_vars

\* C32: at most one timer of the debounce is pending; while callbacks follow
\* each other within the 10 ms no timer calls updateBacklinks(), and when the
\* timer of a burst is gone it has made exactly one call
C32_Debounce ==
  /\ Cardinality(backlinks.timers) <= 1
  /\ backlinks.calls <= 1
  /\ backlinks.burst > 0 /\ backlinks.elapsed < DebounceMs =>
       backlinks.calls = 0 /\ backlinks.timers # {}
  /\ backlinks.burst > 0 /\ backlinks.timers = {} => backlinks.calls = 1

\* A burst of two or more callbacks has ended in its one call
C32_Witness ==
  backlinks.burst = 2 /\ backlinks.calls = 1 /\ backlinks.timers = {}

\* The host runs what is due: time passes, due timers fire, queued records
\* reach the observer and awaited reads resolve; the host itself need not
\* draw anything again
SpecBacklinksFair ==
  /\ SpecBacklinks
  /\ WF_vars(BacklinksLayoutReady)
  /\ WF_vars(BacklinkTick)
  /\ WF_vars(\E t \in backlinks.timers : BacklinkTimer(t))
  /\ WF_vars(BacklinkMutations)
  /\ WF_vars(\E job \in backlinks.jobs : BacklinkResumes(job))

\* No timer, no record and no update is left
Quiet ==
  /\ backlinks.timers = {}
  /\ backlinks.records = {}
  /\ backlinks.jobs = {}

\* Every element shows the display name of a document that has one
ShowsDisplayName ==
  BacklinkDisplayName(backlinks.doc) # <<>> =>
    \A e \in Elems : backlinks.els[e].text = BacklinkDisplayName(backlinks.doc)

\* C33: the observer, the timer and the updates come to rest, with every
\* element showing the display name
C33_Quiesces == <>[](Quiet /\ ShowsDisplayName)

QuietAtLast == <>[]Quiet
ShownAtLast == <>[](Quiet => ShowsDisplayName)

(***************************************************************************)
(* SpecDrop: DragDropService on the cursor line of an editor and the line  *)
(* below it.  A line is the sequence of its links; a link has a type, a    *)
(* target and the texts after each '|' (wiki) or between the brackets      *)
(* (markdown).  rev names the revision: "retry" is DragDropService.ts,     *)
(* "dedup" the one with lastDropTime.  Time is counted in units of 50 ms.  *)
(***************************************************************************)

MaxDrops == 2       \* drops of one run

DropDelay == 1      \* setTimeout(..., 50) of the drop handlers
RetryDelay == 2     \* delay = 100 of replaceLinkWithRetry
maxAttempts == 3
DropDebounce == 2   \* DROP_DEBOUNCE_MS = 100

DropFiles == {"a", "b"}
DropTitles == {<<>>, <<"t">>}
Handlers == {"editor", "dom"}

WikiLink(f, parts) == [type |-> "wiki", target |-> f, parts |-> parts, fresh |-> FALSE]
MarkdownLink(f, text) == [type |-> "markdown", target |-> f, parts |-> <<text>>, fresh |-> FALSE]

\* What a line holds before the first drop
DropLines ==
  {<<>>} \cup {<<WikiLink(f, <<>>)>> : f \in DropFiles}
         \cup {<<WikiLink("b", <<<<"x">>>>)>>, <<MarkdownLink("b", <<"b">>)>>}

\* getDisplayName(file): the trimmed property value, <<>> for null
DropDisplayName(d, f) == Trim(d.titles[f])

Lowest(S) == CHOOSE i \in S : \A j \in S : i <= j
Highest(S) == CHOOSE i \in S : \A j \in S : j <= i

\* The links of a line the regular expressions find for file f ("" for any)
LinksOf(line, type, f) ==
  {i \in DOMAIN line : line[i].type = type /\ (f = "" \/ line[i].target = f)}

\* replaceLastInsertedLink of DragDropService.ts: the first wiki link to the
\* file, else the first markdown link to it, on the line nearest to the
\* cursor (line 1) that has one.  The wiki branch replaces and falls through
\* to 'return false'; the markdown branch returns true
replaceLastInsertedLink(lines, f, displayName) ==
  LET has(l) == LinksOf(lines[l], "wiki", f) \cup LinksOf(lines[l], "markdown", f) # {}
      near == {l \in DOMAIN lines : has(l)}
  IN IF near = {} THEN [lines |-> lines, found |-> FALSE, replaced |-> FALSE]
     ELSE LET l == Lowest(near)
              wiki == LinksOf(lines[l], "wiki", f)
              i == IF wiki # {} THEN Lowest(wiki) ELSE Lowest(LinksOf(lines[l], "markdown", f))
          IN [lines |-> [lines EXCEPT ![l][i].parts = <<displayName>>],
              found |-> lines[l][i].type = "markdown",
              replaced |-> TRUE]

\* replaceLastInsertedLink of the revision with lastDropTime: the last wiki
\* link of the cursor line, whatever its target, gets '|displayName' after
\* all it holds; without a wiki link the last markdown link gets the text
replaceLastLinkOnLine(lines, displayName) ==
  LET wiki == LinksOf(lines[1], "wiki", "")
      markdown == LinksOf(lines[1], "markdown", "")
  IN IF wiki # {}
     THEN [lines EXCEPT ![1][Highest(wiki)].parts = Append(@, displayName)]
     ELSE IF markdown # {}
          THEN [lines EXCEPT ![1][Highest(markdown)].parts = <<displayName>>]
          ELSE lines

\* replaceLinkWithRetry(file, displayName, editor, attempt); chains records
\* for the caller by what its attempts did (history)
replaceLinkWithRetry(d, f, displayName, by, attempt) ==
  IF attempt >= maxAttempts THEN d
  ELSE LET r == replaceLastInsertedLink(d.lines, f, displayName)
           c == d.chains[by]
           tried == [d EXCEPT !.lines = r.lines,
                              !.chains[by] = [attempts |-> c.attempts + 1,
                                              replaced |-> c.replaced \/ r.replaced,
                                              after |-> c.after \/ c.replaced,
                                              lied |-> c.lied \/ (r.found # r.replaced)]]
       IN IF ~r.found /\ attempt < maxAttempts - 1
          THEN [tried EXCEPT !.timers = @ \cup {[kind |-> "retry", by |-> by, file |-> f,
                                                name |-> displayName,
                                                attempt |-> attempt + 1,
                                                left |-> RetryDelay]}]
          ELSE tried

\* The check of lastDropTime and lastDropData in both handlers of the later
\* revision, then the timer of 50 ms when the file has a display name.
\* handled counts the handlers not ignored; late tells that one of them ran
\* 100 ms or more after the handler before it (history)
DedupDrop(d, by) ==
  LET f == d.event.file
      displayName == DropDisplayName(d, f)
  IN IF d.since < DropDebounce /\ d.lastDropData = f THEN d
     ELSE LET seen == [d EXCEPT !.since = 0, !.lastDropData = f,
                                !.event.handled = @ + 1,
                                !.event.late = @ \/ d.since >= DropDebounce]
          IN IF displayName = <<>> THEN seen
             ELSE [seen EXCEPT !.timers = @ \cup {[kind |-> "replace", by |-> by,
                                                  file |-> f, name |-> displayName,
                                                  attempt |-> 0, left |-> DropDelay]}]

\* handleDragDrop: DragDropService.ts tries at once, with retries
handleDragDrop(d) ==
  LET f == d.event.file
      displayName == DropDisplayName(d, f)
  IN IF d.rev = "dedup" THEN DedupDrop(d, "editor")
     ELSE IF displayName = <<>> THEN d
          ELSE replaceLinkWithRetry(d, f, displayName, "editor", 0)

\* handleDOMDrop: DragDropService.ts starts its retries after 50 ms
handleDOMDrop(d) ==
  LET f == d.event.file
      displayName == DropDisplayName(d, f)
  IN IF d.rev = "dedup" THEN DedupDrop(d, "dom")
     ELSE IF displayName = <<>> THEN d
          ELSE [d EXCEPT !.timers = @ \cup {[kind |-> "retry", by |-> "dom", file |-> f,
                                             name |-> displayName, attempt |-> 0,
                                             left |-> DropDelay]}]

NoChain == [attempts |-> 0, replaced |-> FALSE, after |-> FALSE, lied |-> FALSE]

InitDrop ==
  /\ \E rev \in {"retry", "dedup"}, titles \in [DropFiles -> DropTitles],
        line \in DropLines, below \in {<<>>, <<WikiLink("a", <<>>)>>} :
       drop = [NoDrop EXCEPT !.rev = rev, !.titles = titles, !.lines = <<line, below>>,
                             !.since = DropDebounce,
                             !.event = [NoEvent EXCEPT !.handled = 0] @@ [late |-> FALSE],
                             !.chains = [h \in Handlers |-> NoChain]]
  /\ config = NoConfig /\ backlinks = NoBacklinks /\ bookmark = NoBookmark
  /\ ResolveIdle /\ SearchIdle /\ SuggestIdle /\ HooksIdle /\ SurfIdle
  /\ WorldIdle /\ LinkIdle /\ FmIdle

DropUnchanged ==
  UNCHANGED <<config, backlinks, bookmark, resolveVars, searchVars, suggestVars, hookVars, surfVars,
              worldVars, linkVars, fmVars>>

\* The user drops file f on the cursor line: the host will fire the handlers
\* hs and insert a link of the format of its settings
UserDrops(f, format, hs) ==
  /\ drop.drops < MaxDrops
  /\ drop.event.handlers = {} /\ ~drop.event.insert /\ drop.timers = {}
  /\ drop' = [drop EXCEPT !.drops = @ + 1,
                          !.event = [file |-> f, handlers |-> hs, insert |-> TRUE,
                                     format |-> format, handled |-> 0, late |-> FALSE],
                          !.chains = [h \in Handlers |-> NoChain],
                          !.lines = [l \in DOMAIN @ |->
                                       [i \in DOMAIN @[l] |-> [@[l][i] EXCEPT !.fresh = FALSE]]]]
  /\ DropUnchanged

\* The host fires 'editor-drop'
EditorDrop ==
  /\ "editor" \in drop.event.handlers
  /\ drop' = handleDragDrop([drop EXCEPT !.event.handlers = @ \ {"editor"}])
  /\ DropUnchanged

\* The host fires the drop listener of the document
DomDrop ==
  /\ "dom" \in drop.event.handlers
  /\ drop' = handleDOMDrop([drop EXCEPT !.event.handlers = @ \ {"dom"}])
  /\ DropUnchanged

\* The host inserts its link before or after the links of the cursor line
HostInserts(front) ==
  /\ drop.event.insert
  /\ LET f == drop.event.file
         link == [IF drop.event.format = "wiki" THEN WikiLink(f, <<>>)
                  ELSE MarkdownLink(f, <<f>>) EXCEPT !.fresh = TRUE]
     IN drop' = [drop EXCEPT !.event.insert = FALSE,
                             !.lines[1] = IF front THEN <<link>> \o @ ELSE Append(@, link)]
  /\ DropUnchanged

\* 50 ms pass with no timer due
DropTick ==
  /\ drop.timers # {} \/ (drop.rev = "dedup" /\ drop.since < DropDebounce)
  /\ \A t \in drop.timers : t.left > 0
  /\ drop' = [drop EXCEPT !.timers = {[t EXCEPT !.left = @ - 1] : t \in @},
                          !.since = IF @ < DropDebounce THEN @ + 1 ELSE @]
  /\ DropUnchanged

\* A timer of the service is due
DropTimer(t) ==
  /\ t \in drop.timers /\ t.left = 0
  /\ LET d == [drop EXCEPT !.timers = @ \ {t}]
     IN drop' = IF t.kind = "replace"
                THEN [d EXCEPT !.lines = replaceLastLinkOnLine(@, t.name)]
                ELSE replaceLinkWithRetry(d, t.file, t.name, t.by, t.attempt)
  /\ DropUnchanged

NextDrop ==
  \/ \E f \in DropFiles, format \in {"wiki", "markdown"}, hs \in SUBSET Handlers \ {{}} :
       UserDrops(f, format, hs)
  \/ EditorDrop
  \/ DomDrop
  \/ \E front \in BOOLEAN : HostInserts(front)
  \/ DropTick
  \/ \E t \in drop.timers : DropTimer(t)

SpecDrop == InitDrop /\ [][NextDrop]_vars

\* C34: replaceLastInsertedLink returns true exactly when it replaced a
\* link, and no caller of replaceLinkWithRetry sees more than 3 attempts or
\* an attempt after one that replaced the link
C34_RetryStops ==
  drop.rev = "retry" =>
    \A h \in Handlers :
      /\ drop.chains[h].attempts <= maxAttempts
      /\ ~drop.chains[h].lied
      /\ ~drop.chains[h].after

\* Of the handlers one drop fires within 100 ms only the first is processed
OnceProcessed == drop.event.handled <= 1 \/ drop.event.late

\* No link holds a second display text
NoDoubledText ==
  \A l \in DOMAIN drop.lines : \A i \in DOMAIN drop.lines[l] : Len(drop.lines[l][i].parts) <= 1

\* The handlers, the host and the timers are done with a drop that was
\* processed
DropSettled ==
  /\ drop.drops > 0 /\ drop.event.handled > 0
  /\ drop.event.handlers = {} /\ ~drop.event.insert /\ drop.timers = {}

\* The link the host inserted holds the display name of its file
InsertedTitled ==
  DropSettled /\ DropDisplayName(drop, drop.event.file) # <<>> =>
    \A i \in DOMAIN drop.lines[1] :
      drop.lines[1][i].fresh =>
        drop.lines[1][i].parts = <<DropDisplayName(drop, drop.event.file)>>

\* C35: in the revision with lastDropTime one drop is processed once, the
\* link it inserted ends with the display name as its one display text, and
\* no link ever holds the display text twice
C35_DropOnce ==
  drop.rev = "dedup" => OnceProcessed /\ InsertedTitled /\ NoDoubledText

\* A step of the service that changes the text of the editor
DropRewrites ==
  /\ drop'.lines # drop.lines
  /\ drop'.event.insert = drop.event.insert
  /\ drop'.drops = drop.drops

\* The step gave the display name of the dropped file to links to that file
\* and changed nothing else
OnlyTitlesDropped ==
  LET f == drop.event.file
      displayName == DropDisplayName(drop, f)
  IN /\ displayName # <<>>
     /\ \A l \in DOMAIN drop.lines :
          /\ Len(drop'.lines[l]) = Len(drop.lines[l])
          /\ \A i \in DOMAIN drop.lines[l] :
               drop'.lines[l][i] # drop.lines[l][i] =>
                 /\ drop.lines[l][i].target = f
                 /\ drop'.lines[l][i] = [drop.lines[l][i] EXCEPT !.parts = <<displayName>>]

\* C36: the service changes the editor only by giving the display name to a
\* link to the dropped file, and only when that file has a display name
C36_DropFrame == [][DropRewrites => OnlyTitlesDropped]_vars

DropFrameOfRetry == [][drop.rev = "retry" /\ DropRewrites => OnlyTitlesDropped]_vars
OnceProcessedOfDedup == drop.rev = "dedup" => OnceProcessed
InsertedTitledOfDedup == drop.rev = "dedup" => InsertedTitled
NoDoubledTextOfDedup == drop.rev = "dedup" => NoDoubledText

\* C37: a step in which WindowFrameService.enable() installs its override
\* while the active file has the property leaves the window title set from
\* the property value
C37_TitleOnEnable ==
  [][~frame.enabled /\ frame'.enabled /\ frame'.titled => frame'.title = "property"]_vars

(***************************************************************************)
(* SpecBookmark: BookmarkService, the modal element of the host and the    *)
(* polls of handleModalAppearance on it.  The title input holds "" (empty),*)
(* the base name or the name of the file, what the user typed, or the      *)
(* display value.  A closed modal is a detached element: the polls that    *)
(* hold it go on.  The host makes the next modal element when the polls    *)
(* on the last one have ended.                                             *)
(***************************************************************************)

MaxPolls == 2          \* handleModalAppearance calls on one modal element

maxPollAttempts == 30  \* maxAttempts of handleModalAppearance

Polls == 1..MaxPolls
InputValues == {"", "basename", "name", "user", "display"}

\* attempts is the closure's counter; tries counts the calls of
\* tryIdentifyAndPopulate (history)
NoPoll == [state |-> "none", attempts |-> 0, tries |-> 0]

\* unhookBookmarks()
unhookBookmarks(b) ==
  [b EXCEPT !.observers = IF b.mutationObserver THEN @ - 1 ELSE @,
            !.mutationObserver = FALSE,
            !.isHooked = FALSE]

\* The end of an attempt that did not populate: attempts++, and another
\* attempt in 50 ms while attempts < maxAttempts
Reschedule(b, p) ==
  LET n == b.polls[p].attempts + 1
  IN [b EXCEPT !.polls[p].attempts = n,
               !.polls[p].state = IF n < maxPollAttempts THEN "timer" ELSE "gaveup"]

\* tryIdentifyAndPopulate up to its await: a bookmark modal whose title
\* input is found waits for getFrontmatter
tryIdentifyAndPopulate(b, p) ==
  LET t == [b EXCEPT !.polls[p].tries = @ + 1]
  IN IF t.modal.isBookmark /\ t.modal.input
     THEN [t EXCEPT !.polls[p].state = "await"]
     ELSE Reschedule(t, p)

\* The write of the attempt whatever the input holds
populateAlways(b, p, titled) ==
  IF titled
  THEN [b EXCEPT !.modal.value = "display", !.wrote = b.modal.value,
                 !.polls[p].state = "done"]
  ELSE Reschedule(b, p)

\* tryIdentifyAndPopulate after its await: a non-blank display value
\* (titled) is written when the input is empty or holds the base name or the
\* file name, and the poll ends; wrote keeps what the input held (history)
populate(b, p, titled) ==
  IF titled /\ b.modal.value \in {"", "basename", "name"}
  THEN [b EXCEPT !.modal.value = "display", !.wrote = b.modal.value,
                 !.polls[p].state = "done"]
  ELSE Reschedule(b, p)

\* handleModalAppearance(modalEl): a new closure with attempts = 0 and its
\* first attempt
handleModalAppearance(b) ==
  LET p == CHOOSE i \in Polls :
             b.polls[i].state = "none" /\ \A j \in 1..(i - 1) : b.polls[j].state # "none"
  IN tryIdentifyAndPopulate(b, p)

\* hookBookmarks(): a modal in the document is handled, then a new observer
hookBookmarks(b) ==
  LET m == IF b.modal.open THEN handleModalAppearance(b) ELSE b
  IN [m EXCEPT !.observers = @ + 1, !.mutationObserver = TRUE, !.isHooked = TRUE]

\* BookmarkService.updateBookmarks()
BookmarkServiceUpdateBookmarks(b) ==
  IF b.enableForBookmarks /\ ~b.isHooked THEN hookBookmarks(b)
  ELSE IF ~b.enableForBookmarks /\ b.isHooked THEN unhookBookmarks(b)
  ELSE b

\* There is room for one more closure
PollFree(b) == \E i \in Polls : b.polls[i].state = "none"

\* A poll has an attempt to come
PollActive(b) == \E i \in Polls : b.polls[i].state \in {"await", "timer"}

InitBookmark ==
  /\ \E on \in BOOLEAN :
       bookmark = [NoBookmark EXCEPT !.phase = "constructed", !.enableForBookmarks = on,
                                     !.polls = [p \in Polls |-> NoPoll]]
  /\ config = NoConfig /\ backlinks = NoBacklinks /\ drop = NoDrop
  /\ ResolveIdle /\ SearchIdle /\ SuggestIdle /\ HooksIdle /\ SurfIdle
  /\ WorldIdle /\ LinkIdle /\ FmIdle

BookmarkUnchanged ==
  UNCHANGED <<config, backlinks, drop, resolveVars, searchVars, suggestVars, hookVars,
              surfVars, worldVars, linkVars, fmVars>>

\* onload calls updateBookmarks(); so do its timer of 1000 ms, which may
\* fire after onunload, onLayoutReady and the 'changed' handler
BookmarksUpdate ==
  /\ PollFree(bookmark)
  /\ bookmark' = [BookmarkServiceUpdateBookmarks(bookmark) EXCEPT
                    !.phase = IF @ = "constructed" THEN "loaded" ELSE @]
  /\ BookmarkUnchanged

\* The setting changes while the plugin is loaded
BookmarkSettingChanged ==
  /\ bookmark.phase = "loaded"
  /\ bookmark' = [bookmark EXCEPT !.enableForBookmarks = ~@]
  /\ BookmarkUnchanged

\* The host adds a new modal element, a bookmark modal or another, with its
\* inputs built or not yet; a connected observer calls
\* handleModalAppearance
ModalOpens(isBookmark, input, value) ==
  /\ ~bookmark.modal.open /\ ~PollActive(bookmark)
  /\ LET m == [bookmark EXCEPT !.modal = [open |-> TRUE, isBookmark |-> isBookmark,
                                          input |-> input,
                                          value |-> IF input THEN value ELSE ""],
                               !.polls = [p \in Polls |-> NoPoll]]
     IN bookmark' = IF m.observers > 0 THEN handleModalAppearance(m) ELSE m
  /\ BookmarkUnchanged

\* The host builds the inputs of the modal
InputsAppear(value) ==
  /\ bookmark.modal.open /\ ~bookmark.modal.input
  /\ bookmark' = [bookmark EXCEPT !.modal.input = TRUE, !.modal.value = value]
  /\ BookmarkUnchanged

\* The user types a title or empties the input
UserTypes(value) ==
  /\ bookmark.modal.open /\ bookmark.modal.input
  /\ bookmark.modal.value # value
  /\ bookmark' = [bookmark EXCEPT !.modal.value = value]
  /\ BookmarkUnchanged

\* The modal closes: its element leaves the document
ModalCloses ==
  /\ bookmark.modal.open
  /\ bookmark' = [bookmark EXCEPT !.modal.open = FALSE]
  /\ BookmarkUnchanged

\* getFrontmatter resolves for the attempt of poll p, with a non-blank
\* display value or without
PollResumes(p, titled) ==
  /\ bookmark.polls[p].state = "await"
  /\ bookmark' = populate(bookmark, p, titled)
  /\ BookmarkUnchanged

\* The timer of 50 ms of poll p fires
PollTimer(p) ==
  /\ bookmark.polls[p].state = "timer"
  /\ bookmark' = tryIdentifyAndPopulate(bookmark, p)
  /\ BookmarkUnchanged

\* BookmarkService.onunload()
BookmarkUnload ==
  /\ bookmark.phase = "loaded"
  /\ bookmark' = [unhookBookmarks(bookmark) EXCEPT !.phase = "unloaded"]
  /\ BookmarkUnchanged

NextBookmark ==
  \/ BookmarksUpdate
  \/ BookmarkSettingChanged
  \/ \E isBookmark \in BOOLEAN, input \in BOOLEAN, value \in {"basename", "name"} :
       ModalOpens(isBookmark, input, value)
  \/ \E value \in {"basename", "name"} : InputsAppear(value)
  \/ \E value \in {"", "user"} : UserTypes(value)
  \/ ModalCloses
  \/ \E p \in Polls, titled \in BOOLEAN : PollResumes(p, titled)
  \/ \E p \in Polls : PollTimer(p)
  \/ BookmarkUnload

SpecBookmark == InitBookmark /\ [][NextBookmark]_vars

====
